---- MODULE Spec2Model ----
(***************************************************************************)
(* Verification model of the PoW compute engine of vedenij/small:          *)
(*   - nonce streams handed to the Controllers (compute/controller.py),    *)
(*   - the Phase cell, the Worker loop and process teardown                *)
(*     (compute/worker.py, compute/controller.py),                         *)
(*   - the Sender loop with its retry buffers (service/sender.py),         *)
(*   - the delegation server: DelegationManager and DelegationSession      *)
(*     (service/delegation/server.py).                                     *)
(* Each subsystem has its own variables and its own specification; a       *)
(* specification keeps the variables of the other subsystems parked.       *)
(***************************************************************************)
EXTENDS Integers, Sequences, FiniteSets, TLC

Range(s) == {s[i] : i \in 1..Len(s)}

(***************************************************************************)
(* Bounds of the model                                                     *)
(***************************************************************************)
MaxNodes == 2
MaxGroups == 2
MaxK == 3
NumWorkers == 2
MaxBatches == 2
MaxValidate == 1
ValidateLen == 2
MaxSessions == 2
max_sessions == 1
MaxSessionBatches == 1
MaxClockSteps == 1
NumPollers == 2
MaxBufferBatches == 2
MaxPolls == 3
MaxClientPolls == 12
MaxClientBatches == 1
MaxManagerBatches == 2
MaxChildren == 2
MaxDevices == 4
MaxCalls == 2
MaxBatchLen == 3
MaxSplit == 2
MaxIssued == 3
GenBatchLen == 2
MaxRunners == 2
MaxModels == 4
MaxTaskObjs == 4
MaxWaiters == 1
MaxNodeSessions == 3
session_limit == 2
NumManagers == 2
MaxChecks == 4
NumPorts == 2
MaxProxyRequests == 2
MaxShutdowns == 2
MaxSetups == 2

(***************************************************************************)
(* State                                                                   *)
(***************************************************************************)
\* Nonce streams
VARIABLES
    node_count,     \* ParallelController.node_count (n_nodes of the network)
    n_groups,       \* len(gpu_groups) of every ParallelController
    drawn           \* drawn[<<node_id, idx>>]: nonces the Worker of Controller
                    \* idx on node node_id has taken from its iterator, in order

\* Phase cell, Workers, Controllers, ParallelController
VARIABLES
    phase,          \* ParallelController.phase: the shared multiprocessing.Value
    phaseWrites,    \* history: <<writer, value>> of every write to the cell
    wpc,            \* wpc[i]: where the process of Controller i is
    observedStop,   \* history: Worker i has read Phase.STOP from the cell
    startIdx,       \* ParallelController.start(): next Controller to start
    stopIdx         \* ParallelController.stop(): Controller being stopped, -1 if none

\* Sender
VARIABLES
    phase_is_none,          \* Sender.phase is None (delegation variant of run())
    stop_event,             \* Sender.stop_event
    generation_queue,       \* Sender.generation_queue (generated_batch_queue)
    generated_not_sent,     \* Sender.generated_not_sent
    validation_queue,       \* Sender.validation_queue (validated_batch_queue)
    to_validate_batch_queue,\* ParallelController.to_validate_batch_queue
    in_validation_queue,    \* Sender.in_validation_queue
    in_validation,          \* Sender.in_validation
    validated_not_sent,     \* Sender.validated_not_sent
    accepted,               \* history: bodies the endpoint answered 2xx, per route
    drained,                \* history: batches the Sender took off generation_queue
    materialized,           \* history: ValidatedBatches returned by _get_validated
    produced,               \* number of batches the Workers have generated so far
    submitted,              \* number of batches submitted for validation so far
    pendingSubmit,          \* batch of a validate request between its two puts, <<>> if none
    worker_chunks,          \* merged_batches of Worker._validate still to validate
    lastTick                \* history: what the last iteration of Sender.run did

\* Delegation server
VARIABLES
    sessions,       \* DelegationManager.sessions: the registered session ids
    sess,           \* sess[s]: the DelegationSession object with id s
    cpc,            \* cpc[s]: where the create_session call that made s is
    collector,      \* collector[s]: the batch collector thread of s is running
    known,          \* session ids create_session has returned to a client
    allocated,      \* number of session ids handed out by uuid4 so far
    now,            \* time.time()
    clockSteps,     \* number of times the clock has advanced
    lastCall        \* history: the last manager call and how it ended

\* One DelegationSession's buffer, with its lock
VARIABLES
    lock,           \* DelegationSession.lock: the set of threads holding it
    batch_buffer,   \* DelegationSession.batch_buffer
    total_generated,\* DelegationSession.total_generated
    tpc,            \* tpc[t]: where thread t is inside add_batch / get_batches
    batches,        \* batches[p]: the local copy made by get_batches in poller p
    responses,      \* history: the lists get_batches has returned, in order
    polls           \* number of get_batches calls started so far

\* DelegationClient (small node)
VARIABLES
    client_running,     \* DelegationClient._running
    has_session_id,     \* DelegationClient.session_id is not None
    consecutive_errors, \* consecutive_errors of the running _poll_loop
    poll_pc,            \* the poll thread: "none", "loop" or "exited"
    client_received,    \* number of batches put on generated_batch_queue
    pollLog,            \* history: "ok"/"fail" for every poll of this loop
    stoppedBy,          \* history: why the poll loop ended
    stop_result     \* the latest DelegationClient.stop(): "none", "joining", "asked" or "early"

\* PowManager and the routes of the small node's API
VARIABLES
    mgr,                \* the PowManager object and what it owns
    delegation_enabled, \* os.getenv("DELEGATION_ENABLED") == "1"
    lastResponse        \* history: the last route called and its HTTP status

\* Controller.stop() and the process tree of one Worker
VARIABLES
    proc,           \* proc[p]: "unborn", "alive" or "dead"; process 0 is the Worker
    parent_of,      \* parent_of[p]: the process that spawned p
    orphaned,       \* processes whose parent died before them (re-parented)
    sigterm,        \* processes with a SIGTERM delivered and not yet handled
    stop_pc,        \* where the Controller.stop() call is
    processes,      \* the local list "processes" of Controller.stop()
    reaped,         \* the Worker process has been waited for
    signalled,      \* history: processes Controller.stop() sent SIGTERM to
    killed          \* history: processes Controller.stop() sent SIGKILL to

\* create_gpu_groups() and the accelerators it enumerates
VARIABLES
    cuda_available,     \* torch.cuda.is_available()
    vram_per_device,    \* vram_per_device[d + 1]: GB of VRAM of device d
    min_vram_gb,        \* the threshold a group's total VRAM has to reach
    groups_pc,          \* "idle", "scanning", "returned" or "raised"
    next_device,        \* the first device not yet in a group
    gpu_groups,         \* the groups formed so far, each a sequence of devices
    groups_error,       \* message of the NotEnoughGPUResources raised, or ""
    outcomes            \* history: the outcome of every finished call

\* ProofBatch, InValidation and ValidatedBatch on the validation path
VARIABLES
    proof_batch,        \* the ProofBatch submitted: a claim of distances
    split_size,         \* Worker.batch_size, the n of split(n)
    r_target,           \* Sender.r_target, in tenths
    fraud_threshold,    \* Sender.fraud_threshold, in hundredths
    true_dist,          \* true_dist[nonce]: the distance a recomputation gives
    batch_pc,           \* "submitted" or "split"
    split_batches,      \* the chunks Worker._prepare_next_batch made
    to_compute,         \* indices of the chunks not yet recomputed
    merged_batch,       \* <<>> or the one batch obtained by merging the chunks
    validated_fragments,\* validated_batch_queue: recomputed chunks
    batch_in_validation,      \* the InValidation bound to proof_batch
    validated_batches   \* <<>> or the one ValidatedBatch materialized

\* One Worker process in its generate loop, with the executor's futures
VARIABLES
    gen_pc,                 \* "run" (Worker.run loop), "generate" (inside _generate), "exited"
    interrupt_flag,         \* Worker.interrupt_flag
    exception,              \* Worker.exception is not None
    issued,                 \* number of batches whose nonces were drawn so far
    next_nonces,            \* _generate's local next_nonces: a drawn batch, 0 outside _generate
    compute_calls,          \* history: compute_calls[k], times batch k was handed to Compute
    abandoned,              \* history: batches that were next_nonces when _generate ended
    futures,                \* futures[k]: "none", "pending" or "done"
    generated_batch_queue,  \* the generated-batch queue as this Worker fills it
    computed_dist,          \* computed_dist[nonce]: the distance Compute finds
    evaluated,              \* history: nonces whose distance has been computed
    peer_alive              \* the process of the pool's other Controller is alive

\* The API process: the three managers behind check_service_conflicts
VARIABLES
    service_state,      \* app.state.service_state
    pow_manager,        \* PowManager: "None" (pow_controller is None) or "running"
    train_manager,      \* TrainManager: "None" (process is None) or "running"
    vllm_runner,        \* InferenceManager.vllm_runner: 0 (None) or a runner
    vllm_processes,     \* vllm_processes[r]: runner r has spawned its vLLM processes
    runners_made,       \* number of runner objects constructed so far
    startup_task,       \* InferenceManager._startup_task: "None", "pending", "done", "cancelled"
    startup_pc,         \* position of the executor thread that runs _do_startup
    thread_runner,      \* the runner whose start() the executor thread is in
    async_stop_pc,      \* position of the _async_stop coroutine
    async_stop_caller,  \* who awaits _async_stop: "none", "down" or "conflict"
    stop_target,        \* the runner whose stop() _async_stop handed to the executor
    stop_began_starting,\* _async_stop was called while is_starting()
    stop_returned,      \* history: such an _async_stop has returned, no start since
    last_check          \* outcome of the latest check_service_conflicts

\* ModelManager: the download tasks and the asyncio lock that guards them
VARIABLES
    download_tasks,     \* ModelManager._download_tasks: identifier -> DownloadTask (0: no entry)
    task_objs,          \* every DownloadTask object created so far: [id, status]
    cached,             \* identifiers whose model is complete in the cache
    lock_holder,        \* the coroutine that holds ModelManager._lock across an await
    lock_waiters,       \* the coroutines waiting for the lock, first come first served
    last_add            \* outcome of the latest add_model body

\* The sessions of one big node and the small nodes they work for
VARIABLES
    node_sessions,      \* the sessions created so far: [node_id, status, drawn]
    client_session,     \* client_session[n]: DelegationClient.session_id of small node n (0: None)
    start_refused       \* the latest delegation start was refused for capacity

\* watch_managers and the managers it watches
VARIABLES
    managers,           \* managers[m]: the IManager fields and what its _stop/_is_healthy see
    unhealthy_counts,   \* unhealthy_counts of watch_managers
    watcher_pc,         \* "sleeping", "exited" (os._exit(1)) or "crashed" (stop() raised)
    health_log,         \* history: health_log[m], what is_healthy() told the watcher, in order
    cycle               \* history: cycle[m], "none", "failed", "stopped" or "restarted"

\* the vLLM proxy of the API server and InferenceManager._async_stop
VARIABLES
    vllm_counts,        \* proxy.vllm_counts: port -> connections the picker counts
    vllm_healthy,       \* proxy.vllm_healthy: port -> last health check
    shutdown_event,     \* proxy.shutdown_event is set
    active_proxy_tasks, \* proxy.active_proxy_tasks: the registered stream tasks
    proxied,            \* proxied[r]: where request r is, its port, its ending, its releases
    async_stops,        \* async_stops[s]: where the s-th _async_stop call is, and its snapshot
    backends_up,        \* the vLLM processes of the runner are running
    setups              \* history: number of setup_vllm_proxy calls

nonceVars == <<node_count, n_groups, drawn>>
bufferVars == <<lock, batch_buffer, total_generated, tpc, batches, responses, polls>>
delegVars == <<sessions, sess, cpc, collector, known, allocated, now,
               clockSteps, lastCall>>
workerVars == <<phase, phaseWrites, wpc, observedStop, startIdx, stopIdx>>
senderVars == <<phase_is_none, stop_event, generation_queue, generated_not_sent,
                validation_queue, to_validate_batch_queue, in_validation_queue,
                in_validation, validated_not_sent, accepted, drained,
                materialized, produced, submitted, pendingSubmit,
                worker_chunks, lastTick>>
clientVars == <<client_running, has_session_id, consecutive_errors, poll_pc, client_received, pollLog, stoppedBy, stop_result>>
managerVars == <<mgr, delegation_enabled, lastResponse>>
teardownVars == <<proc, parent_of, orphaned, sigterm, stop_pc, processes, reaped, signalled, killed>>
groupsVars == <<cuda_available, vram_per_device, min_vram_gb, groups_pc, next_device, gpu_groups, groups_error, outcomes>>
batchVars == <<proof_batch, split_size, r_target, fraud_threshold, true_dist, batch_pc, split_batches, to_compute, merged_batch, validated_fragments, batch_in_validation, validated_batches>>
generateVars == <<gen_pc, interrupt_flag, exception, issued, next_nonces, compute_calls, abandoned, futures, generated_batch_queue, computed_dist, evaluated, peer_alive>>
apiVars == <<service_state, pow_manager, train_manager, vllm_runner, vllm_processes, runners_made, startup_task, startup_pc, thread_runner, async_stop_pc, async_stop_caller, stop_target, stop_began_starting, stop_returned, last_check>>
modelsVars == <<download_tasks, task_objs, cached, lock_holder, lock_waiters, last_add>>
nodesVars == <<node_sessions, client_session, start_refused>>
watcherVars == <<managers, unhealthy_counts, watcher_pc, health_log, cycle>>
proxyVars == <<vllm_counts, vllm_healthy, shutdown_event, active_proxy_tasks, proxied, async_stops, backends_up, setups>>
vars == <<nonceVars, workerVars, senderVars, delegVars, bufferVars, clientVars, managerVars, teardownVars, groupsVars, batchVars, generateVars, apiVars, modelsVars, nodesVars, watcherVars, proxyVars>>

\* What the actions of one subsystem leave alone.
nonceFrame == <<workerVars, senderVars, delegVars, bufferVars, clientVars, managerVars, teardownVars, groupsVars, batchVars, generateVars, apiVars, modelsVars, nodesVars, watcherVars, proxyVars>>
workerFrame == <<nonceVars, senderVars, delegVars, bufferVars, clientVars, managerVars, teardownVars, groupsVars, batchVars, generateVars, apiVars, modelsVars, nodesVars, watcherVars, proxyVars>>
senderFrame == <<nonceVars, delegVars, bufferVars, clientVars, managerVars, teardownVars, groupsVars, batchVars, generateVars, apiVars, modelsVars, nodesVars, watcherVars, proxyVars>>
delegFrame == <<nonceVars, workerVars, senderVars, bufferVars, clientVars, managerVars, teardownVars, groupsVars, batchVars, generateVars, apiVars, modelsVars, nodesVars, watcherVars, proxyVars>>
bufferFrame == <<nonceVars, workerVars, senderVars, delegVars, clientVars, managerVars, teardownVars, groupsVars, batchVars, generateVars, apiVars, modelsVars, nodesVars, watcherVars, proxyVars>>
clientFrame == <<nonceVars, workerVars, senderVars, delegVars, bufferVars, managerVars, teardownVars, groupsVars, batchVars, generateVars, apiVars, modelsVars, nodesVars, watcherVars, proxyVars>>
managerFrame == <<nonceVars, workerVars, senderVars, delegVars, bufferVars, clientVars, teardownVars, groupsVars, batchVars, generateVars, apiVars, modelsVars, nodesVars, watcherVars, proxyVars>>
teardownFrame == <<nonceVars, workerVars, senderVars, delegVars, bufferVars, clientVars, managerVars, groupsVars, batchVars, generateVars, apiVars, modelsVars, nodesVars, watcherVars, proxyVars>>
groupsFrame == <<nonceVars, workerVars, senderVars, delegVars, bufferVars, clientVars, managerVars, teardownVars, batchVars, generateVars, apiVars, modelsVars, nodesVars, watcherVars, proxyVars>>
batchFrame == <<nonceVars, workerVars, senderVars, delegVars, bufferVars, clientVars, managerVars, teardownVars, groupsVars, generateVars, apiVars, modelsVars, nodesVars, watcherVars, proxyVars>>
generateFrame == <<nonceVars, workerVars, senderVars, delegVars, bufferVars, clientVars, managerVars, teardownVars, groupsVars, batchVars, apiVars, modelsVars, nodesVars, watcherVars, proxyVars>>
apiFrame == <<nonceVars, workerVars, senderVars, delegVars, bufferVars, clientVars, managerVars, teardownVars, groupsVars, batchVars, generateVars, modelsVars, nodesVars, watcherVars, proxyVars>>
modelsFrame == <<nonceVars, workerVars, senderVars, delegVars, bufferVars, clientVars, managerVars, teardownVars, groupsVars, batchVars, generateVars, apiVars, nodesVars, watcherVars, proxyVars>>
nodesFrame == <<nonceVars, workerVars, senderVars, delegVars, bufferVars, clientVars, managerVars, teardownVars, groupsVars, batchVars, generateVars, apiVars, modelsVars, watcherVars, proxyVars>>
watcherFrame == <<nonceVars, workerVars, senderVars, delegVars, bufferVars, clientVars, managerVars, teardownVars, groupsVars, batchVars, generateVars, apiVars, modelsVars, nodesVars, proxyVars>>
proxyFrame == <<nonceVars, workerVars, senderVars, delegVars, bufferVars, clientVars, managerVars, teardownVars, groupsVars, batchVars, generateVars, apiVars, modelsVars, nodesVars, watcherVars>>

(***************************************************************************)
(* 1. Nonce streams                                                        *)
(***************************************************************************)
\* pow.compute.utils.NonceIterator(node_id, n_nodes, group_id, n_groups)
NonceIterator(node_id, n_nodes, group_id, ngroups) ==
    [node_id |-> node_id, n_nodes |-> n_nodes,
     group_id |-> group_id, n_groups |-> ngroups]

\* k-th value of next(iterator), k = 0, 1, 2, ...
NonceIteratorNext(it, k) ==
    it.node_id + it.group_id * it.n_nodes + k * (it.n_nodes * it.n_groups)

\* A plausible slip in ParallelController.__init__: every Controller is given
\* group 0 instead of its own index.
ControllerIteratorSameGroup(node_id, nodes, idx, ngroups) ==
    NonceIterator(node_id, nodes, 0, ngroups)

\* The iterator ParallelController.__init__ builds for Controller idx.
ControllerIterator(node_id, nodes, idx, ngroups) ==
    NonceIterator(node_id, nodes, idx, ngroups)

Streams(nodes, ngroups) == (0..(nodes - 1)) \X (0..(ngroups - 1))

NonceInit ==
    /\ node_count \in 1..MaxNodes
    /\ n_groups \in 1..MaxGroups
    /\ drawn = [p \in Streams(node_count, n_groups) |-> <<>>]

NoncePark ==
    /\ node_count = 1
    /\ n_groups = 1
    /\ drawn = [p \in Streams(1, 1) |-> <<>>]

\* next(self.generator) in Worker._generate, for the Worker of Controller idx
\* of the ParallelController of node node_id.
NextNonce(node_id, idx) ==
    /\ Len(drawn[<<node_id, idx>>]) < MaxK
    /\ drawn' = [drawn EXCEPT ![<<node_id, idx>>] =
                   Append(@, NonceIteratorNext(
                                ControllerIterator(node_id, node_count, idx, n_groups),
                                Len(@)))]
    /\ UNCHANGED <<node_count, n_groups>>
    /\ UNCHANGED nonceFrame

NonceNext == \E p \in DOMAIN drawn : NextNonce(p[1], p[2])

FirstK(p, K) == {drawn[p][i] : i \in 1..K}

\* C1: the streams of all (node_id, group_id) pairs are pairwise disjoint, a
\* stream never repeats a nonce, and once every stream has produced K nonces
\* the union of their first K nonces is exactly {0, ..., K*n_nodes*n_groups - 1}.
C1_NoncePartition ==
    /\ \A p \in DOMAIN drawn : \A q \in DOMAIN drawn :
          p # q => Range(drawn[p]) \cap Range(drawn[q]) = {}
    /\ \A p \in DOMAIN drawn : Cardinality(Range(drawn[p])) = Len(drawn[p])
    /\ \A K \in 0..MaxK :
          (\A p \in DOMAIN drawn : Len(drawn[p]) >= K) =>
             UNION {FirstK(p, K) : p \in DOMAIN drawn}
                = 0..(K * node_count * n_groups - 1)

C1_Witness ==
    /\ node_count >= 2
    /\ n_groups >= 2
    /\ \A p \in DOMAIN drawn : Len(drawn[p]) >= 2

(***************************************************************************)
(* 2. Phase cell, Workers, Controllers, ParallelController                 *)
(***************************************************************************)
\* pow.compute.utils.Phase
Phase == {"IDLE", "GENERATE", "VALIDATE", "STOP"}

Workers == 0..(NumWorkers - 1)

\* Process states: "new" (created, never started), "init" (alive, building
\* Compute), "loop" (line 74 of Worker.run), "generate" and "validate" (inside
\* the loops of _generate and _validate), "exited" (left run() after STOP),
\* "killed" (terminated by Controller.stop).
WorkerPc == {"new", "init", "loop", "generate", "validate", "exited", "killed"}

\* multiprocessing.Process.is_alive()
is_alive(i) == wpc[i] \in {"init", "loop", "generate", "validate"}

\* ParallelController.is_running()
is_running == \A i \in Workers : is_alive(i)

WorkerInit ==
    /\ phase = "IDLE"
    /\ phaseWrites = {}
    /\ wpc = [i \in Workers |-> "new"]
    /\ observedStop = [i \in Workers |-> FALSE]
    /\ startIdx = 0
    /\ stopIdx = -1

WorkerPark == WorkerInit

\* ParallelController.set_phase(new_phase)
set_phase(new_phase) ==
    /\ new_phase \in Phase
    /\ phase' = new_phase
    /\ phaseWrites' = phaseWrites \cup {<<"ParallelController", new_phase>>}

start_generate ==
    /\ set_phase("GENERATE")
    /\ UNCHANGED <<wpc, observedStop, startIdx, stopIdx>>
    /\ UNCHANGED workerFrame

stop_generate ==
    /\ set_phase("IDLE")
    /\ UNCHANGED <<wpc, observedStop, startIdx, stopIdx>>
    /\ UNCHANGED workerFrame

start_validate ==
    /\ set_phase("VALIDATE")
    /\ UNCHANGED <<wpc, observedStop, startIdx, stopIdx>>
    /\ UNCHANGED workerFrame

stop_validate ==
    /\ set_phase("IDLE")
    /\ UNCHANGED <<wpc, observedStop, startIdx, stopIdx>>
    /\ UNCHANGED workerFrame

\* Controller.start(), called for each Controller in turn by
\* ParallelController.start(): spawn the process unless it is alive.
ControllerStart ==
    /\ startIdx < NumWorkers
    /\ wpc' = IF is_alive(startIdx) THEN wpc
               ELSE [wpc EXCEPT ![startIdx] = "init"]
    /\ startIdx' = startIdx + 1
    /\ UNCHANGED <<phase, phaseWrites, observedStop, stopIdx>>
    /\ UNCHANGED workerFrame

\* ParallelController.stop(), first statement: set_phase(Phase.STOP); the
\* Controllers are then stopped one after the other.
ParallelControllerStop ==
    /\ stopIdx = -1
    /\ set_phase("STOP")
    /\ stopIdx' = 0
    /\ UNCHANGED <<wpc, observedStop, startIdx>>
    /\ UNCHANGED workerFrame

\* Controller.stop() of Controller stopIdx: nothing if the process is not
\* alive; otherwise write Phase.STOP to the shared cell, terminate the process
\* tree, wait, kill the survivors and join.
ControllerStop ==
    /\ stopIdx \in Workers
    /\ IF is_alive(stopIdx)
         THEN /\ phase' = "STOP"
              /\ phaseWrites' = phaseWrites \cup {<<"Controller", "STOP">>}
              /\ wpc' = [wpc EXCEPT ![stopIdx] = "killed"]
         ELSE UNCHANGED <<phase, phaseWrites, wpc>>
    /\ stopIdx' = IF stopIdx + 1 < NumWorkers THEN stopIdx + 1 ELSE -1
    /\ UNCHANGED <<observedStop, startIdx>>
    /\ UNCHANGED workerFrame

\* Worker.run() up to the loop: build Compute, set model_init_event.
WorkerStartup(i) ==
    /\ wpc[i] = "init"
    /\ wpc' = [wpc EXCEPT ![i] = "loop"]
    /\ UNCHANGED <<phase, phaseWrites, observedStop, startIdx, stopIdx>>
    /\ UNCHANGED workerFrame

\* A faulty variant of the main loop: on STOP the Worker resets the cell.
WorkerLoopResetsPhase(i) ==
    /\ wpc[i] = "loop"
    /\ wpc' = [wpc EXCEPT ![i] =
                 CASE phase = "STOP" -> "exited"
                   [] phase = "GENERATE" -> "generate"
                   [] phase = "VALIDATE" -> "validate"
                   [] OTHER -> "loop"]
    /\ observedStop' = [observedStop EXCEPT ![i] = @ \/ phase = "STOP"]
    /\ IF phase = "STOP"
         THEN /\ phase' = "IDLE"
              /\ phaseWrites' = phaseWrites \cup {<<"Worker", "IDLE">>}
         ELSE UNCHANGED <<phase, phaseWrites>>
    /\ UNCHANGED <<startIdx, stopIdx>>
    /\ UNCHANGED workerFrame

\* One iteration of the while loop of Worker.run(): read the cell once and
\* dispatch on the value read.
WorkerLoop(i) ==
    /\ wpc[i] = "loop"
    /\ wpc' = [wpc EXCEPT ![i] =
                 CASE phase = "STOP" -> "exited"
                   [] phase = "GENERATE" -> "generate"
                   [] phase = "VALIDATE" -> "validate"
                   [] OTHER -> "loop"]
    /\ observedStop' = [observedStop EXCEPT ![i] = @ \/ phase = "STOP"]
    /\ UNCHANGED <<phase, phaseWrites, startIdx, stopIdx>>
    /\ UNCHANGED workerFrame

\* Worker.is_stopped(current_phase)
is_stopped(current_phase) == phase # current_phase

\* The loop test of Worker._generate: is_stopped(Phase.GENERATE) reads the
\* cell; when the value differs from GENERATE the method returns to run().
WorkerGenerate(i) ==
    /\ wpc[i] = "generate"
    /\ wpc' = [wpc EXCEPT ![i] =
                 IF is_stopped("GENERATE") THEN "loop" ELSE "generate"]
    /\ observedStop' = [observedStop EXCEPT ![i] = @ \/ phase = "STOP"]
    /\ UNCHANGED <<phase, phaseWrites, startIdx, stopIdx>>
    /\ UNCHANGED workerFrame

\* The loop test of Worker._validate: is_stopped(Phase.VALIDATE).
WorkerValidate(i) ==
    /\ wpc[i] = "validate"
    /\ wpc' = [wpc EXCEPT ![i] =
                 IF is_stopped("VALIDATE") THEN "loop" ELSE "validate"]
    /\ observedStop' = [observedStop EXCEPT ![i] = @ \/ phase = "STOP"]
    /\ UNCHANGED <<phase, phaseWrites, startIdx, stopIdx>>
    /\ UNCHANGED workerFrame

PhaseNext ==
    \/ start_generate
    \/ stop_generate
    \/ start_validate
    \/ stop_validate

WorkerNext ==
    \/ PhaseNext
    \/ ControllerStart
    \/ ParallelControllerStop
    \/ ControllerStop
    \/ \E i \in Workers : WorkerStartup(i)
    \/ \E i \in Workers : WorkerLoop(i)
    \/ \E i \in Workers : WorkerGenerate(i)
    \/ \E i \in Workers : WorkerValidate(i)

\* C2: a Worker that has read Phase.STOP (in run() or in is_stopped) is never
\* generating or validating afterwards.
C2_StopIsTerminal ==
    \A i \in Workers : observedStop[i] => wpc[i] \notin {"generate", "validate"}

\* C3 as stated: every write to the Phase cell is made by the
\* ParallelController.
C3_SingleWriter ==
    \A wv \in phaseWrites : wv[1] = "ParallelController"

\* C3 amended: the cell is written only by ParallelController.set_phase and by
\* Controller.stop, which writes STOP only; no Worker writes it.
C3_OrchestratorWrites ==
    \A wv \in phaseWrites :
        \/ wv[1] = "ParallelController"
        \/ wv[1] = "Controller" /\ wv[2] = "STOP"

C3_Witness ==
    /\ <<"Controller", "STOP">> \in phaseWrites
    /\ <<"ParallelController", "GENERATE">> \in phaseWrites
    /\ \E i \in Workers : wpc[i] = "killed"
    /\ \E i \in Workers : observedStop[i]



(***************************************************************************)
(* 3. Sender                                                               *)
(***************************************************************************)
\* A ProofBatch is modelled by its sequence of nonces.

\* The subsequence of s at the indices in S, in order.
KeepIdx(s, S) ==
    LET F[k \in 0..Len(s)] ==
            IF k = 0 THEN <<>>
            ELSE IF k \in S THEN Append(F[k - 1], s[k]) ELSE F[k - 1]
    IN F[Len(s)]

\* ProofBatch.merge(batches): concatenation in order.
Merge(bs) ==
    LET F[k \in 0..Len(bs)] ==
            IF k = 0 THEN <<>> ELSE F[k - 1] \o bs[k]
    IN F[Len(bs)]

\* ProofBatch.split(n): chunks of at most n entries, in order.
Split(b, n) ==
    LET nchunks == (Len(b) + n - 1) \div n
    IN [c \in 1..nchunks |->
           SubSeq(b, (c - 1) * n + 1, IF c * n < Len(b) THEN c * n ELSE Len(b))]

\* Worker.batch_size in the validation path.
batch_size == 1

\* The batch the Worker generates as its k-th, and the k-th batch submitted
\* for validation.
GeneratedBatch(k) == <<k>>
SubmittedBatch(k) == [j \in 1..ValidateLen |-> 10 * k + j]

\* InValidation(batch), InValidation.process(fragment), is_ready(), validated()
InValidation(batch) == [batch |-> batch, seen |-> {}]
process(in_val, fragment) ==
    [in_val EXCEPT !.seen = @ \cup (Range(fragment) \cap Range(in_val.batch))]
is_ready(in_val) == in_val.seen = Range(in_val.batch)
validated(in_val) == in_val.batch

SenderInit ==
    /\ phase_is_none \in BOOLEAN
    /\ stop_event = FALSE
    /\ generation_queue = <<>>
    /\ generated_not_sent = <<>>
    /\ validation_queue = <<>>
    /\ to_validate_batch_queue = <<>>
    /\ in_validation_queue = <<>>
    /\ in_validation = <<>>
    /\ validated_not_sent = <<>>
    /\ accepted = [generated |-> {}, validated |-> {}]
    /\ drained = {}
    /\ materialized = {}
    /\ produced = 0
    /\ submitted = 0
    /\ pendingSubmit = <<>>
    /\ worker_chunks = <<>>
    /\ lastTick = [branch |-> "none", attempted |-> <<>>, retried |-> {}]

SenderPark ==
    /\ phase_is_none = FALSE
    /\ stop_event = FALSE
    /\ generation_queue = <<>>
    /\ generated_not_sent = <<>>
    /\ validation_queue = <<>>
    /\ to_validate_batch_queue = <<>>
    /\ in_validation_queue = <<>>
    /\ in_validation = <<>>
    /\ validated_not_sent = <<>>
    /\ accepted = [generated |-> {}, validated |-> {}]
    /\ drained = {}
    /\ materialized = {}
    /\ produced = 0
    /\ submitted = 0
    /\ pendingSubmit = <<>>
    /\ worker_chunks = <<>>
    /\ lastTick = [branch |-> "none", attempted |-> <<>>, retried |-> {}]

\* Worker._process_result: generated_batch_queue.put(filtered_batch).
PutGenerated ==
    /\ produced < MaxBatches
    /\ produced' = produced + 1
    /\ generation_queue' = Append(generation_queue, GeneratedBatch(produced + 1))
    /\ UNCHANGED <<phase_is_none, stop_event, generated_not_sent, validation_queue,
                   to_validate_batch_queue, in_validation_queue, in_validation,
                   validated_not_sent, accepted, drained, materialized, submitted,
                   pendingSubmit, worker_chunks, lastTick>>
    /\ UNCHANGED senderFrame
    /\ UNCHANGED workerVars

\* routes.validate, first put: manager.pow_controller.to_validate(proof_batch).
ValidateRequestToWorkers ==
    /\ submitted < MaxValidate
    /\ pendingSubmit = <<>>
    /\ submitted' = submitted + 1
    /\ pendingSubmit' = SubmittedBatch(submitted + 1)
    /\ to_validate_batch_queue' =
          Append(to_validate_batch_queue, SubmittedBatch(submitted + 1))
    /\ UNCHANGED <<phase_is_none, stop_event, generation_queue, generated_not_sent,
                   validation_queue, in_validation_queue, in_validation,
                   validated_not_sent, accepted, drained, materialized, produced,
                   worker_chunks, lastTick>>
    /\ UNCHANGED senderFrame
    /\ UNCHANGED workerVars

\* routes.validate, second put: manager.pow_sender.in_validation_queue.put(...).
ValidateRequestToSender ==
    /\ pendingSubmit # <<>>
    /\ in_validation_queue' = Append(in_validation_queue, pendingSubmit)
    /\ pendingSubmit' = <<>>
    /\ UNCHANGED <<phase_is_none, stop_event, generation_queue, generated_not_sent,
                   validation_queue, to_validate_batch_queue, in_validation,
                   validated_not_sent, accepted, drained, materialized, produced,
                   submitted, worker_chunks, lastTick>>
    /\ UNCHANGED senderFrame
    /\ UNCHANGED workerVars

\* Worker._prepare_next_batch inside _validate: drain the to-validate queue
\* and split every batch into chunks of batch_size.
PrepareNextBatch ==
    /\ phase = "VALIDATE"
    /\ worker_chunks = <<>>
    /\ to_validate_batch_queue # <<>>
    /\ worker_chunks' =
          Merge([k \in 1..Len(to_validate_batch_queue) |->
                    Split(to_validate_batch_queue[k], batch_size)])
    /\ to_validate_batch_queue' = <<>>
    /\ UNCHANGED <<phase_is_none, stop_event, generation_queue, generated_not_sent,
                   validation_queue, in_validation_queue, in_validation,
                   validated_not_sent, accepted, drained, materialized, produced,
                   submitted, pendingSubmit, lastTick>>
    /\ UNCHANGED senderFrame
    /\ UNCHANGED workerVars

\* Worker._validate, one pass of the for loop: validate a chunk and put the
\* fragment on the validated queue.
ValidateChunk ==
    /\ worker_chunks # <<>>
    /\ validation_queue' = Append(validation_queue, Head(worker_chunks))
    /\ worker_chunks' = Tail(worker_chunks)
    /\ UNCHANGED <<phase_is_none, stop_event, generation_queue, generated_not_sent,
                   to_validate_batch_queue, in_validation_queue, in_validation,
                   validated_not_sent, accepted, drained, materialized, produced,
                   submitted, pendingSubmit, lastTick>>
    /\ UNCHANGED senderFrame
    /\ UNCHANGED workerVars

\* Worker._validate, one pass of the for loop in which Compute.validate or
\* the put raises (the block-hash assertion of Compute.validate, which
\* routes.validate does not check beforehand, a failure of the kernel, a put
\* that times out): the except branch logs the error and the loop goes on
\* with the next chunk.
ValidateChunkFails ==
    /\ worker_chunks # <<>>
    /\ worker_chunks' = Tail(worker_chunks)
    /\ UNCHANGED <<phase_is_none, stop_event, generation_queue, generated_not_sent,
                   validation_queue, to_validate_batch_queue, in_validation_queue,
                   in_validation, validated_not_sent, accepted, drained,
                   materialized, produced, submitted, pendingSubmit, lastTick>>
    /\ UNCHANGED senderFrame
    /\ UNCHANGED workerVars

\* Sender._get_generated(): drain the queue and merge what was found.
get_generated == Merge(generation_queue)

\* The batches the for loop of _send_generated / _send_validated POSTs.
\* Faulty variant: the loop POSTs only the newest buffered batch.
SendAttemptsOnlyNewest(not_sent) ==
    IF not_sent = <<>> THEN <<>> ELSE <<not_sent[Len(not_sent)]>>

SendAttempts(not_sent) == not_sent

\* failed_batches after the loop, when the POSTs at the indices in ok got a
\* 2xx answer and the others raised a RequestException.
\* Faulty variant: the retry buffer is emptied after every pass.
FailedBatchesCleared(attempts, ok) == <<>>

FailedBatches(attempts, ok) == KeepIdx(attempts, (1..Len(attempts)) \ ok)

AcceptedBatches(attempts, ok) == {attempts[k] : k \in ok}

\* Sender.run(), one iteration with phase GENERATE or with phase None.
SendGeneratedTick(branch) ==
    /\ ~stop_event
    /\ LET generated == get_generated
           buffered == IF Len(generated) > 0
                         THEN Append(generated_not_sent, generated)
                         ELSE generated_not_sent
           attempts == SendAttempts(buffered)
       IN \E ok \in SUBSET (1..Len(attempts)) :
            /\ generation_queue' = <<>>
            /\ drained' = drained \cup Range(generation_queue)
            /\ generated_not_sent' = FailedBatches(attempts, ok)
            /\ accepted' = [accepted EXCEPT
                              !.generated = @ \cup AcceptedBatches(attempts, ok)]
            /\ lastTick' = [branch |-> branch, attempted |-> attempts,
                            retried |-> Range(attempts) \cap Range(generated_not_sent)]
    /\ UNCHANGED <<phase_is_none, stop_event, validation_queue,
                   to_validate_batch_queue, in_validation_queue, in_validation,
                   validated_not_sent, materialized, produced, submitted,
                   pendingSubmit, worker_chunks>>
    /\ UNCHANGED senderFrame
    /\ UNCHANGED workerVars

SenderTickDelegation ==
    /\ phase_is_none
    /\ SendGeneratedTick("delegation")

SenderTickGenerate ==
    /\ ~phase_is_none
    /\ phase = "GENERATE"
    /\ SendGeneratedTick("generate")

\* Sender._get_in_validation(): the accumulators after draining
\* in_validation_queue.
get_in_validation ==
    in_validation \o [k \in 1..Len(in_validation_queue) |->
                         InValidation(in_validation_queue[k])]

\* The accumulators after every drained fragment was fed to every accumulator.
ProcessAll(in_vals, fragments) ==
    LET F[k \in 0..Len(fragments)] ==
            IF k = 0 THEN in_vals
            ELSE [j \in 1..Len(in_vals) |-> process(F[k - 1][j], fragments[k])]
    IN F[Len(fragments)]

\* Sender.run(), the VALIDATE branch after _get_validated: the accumulators
\* that stay in in_validation.
\* Faulty variant: the ready accumulators stay as well.
StillInValidationKeepsReady(processed, readyIdx) == processed

StillInValidation(processed, readyIdx) ==
    KeepIdx(processed, (1..Len(processed)) \ readyIdx)

\* Sender.run(), one iteration with phase VALIDATE.
SenderTickValidate ==
    /\ ~stop_event
    /\ ~phase_is_none
    /\ phase = "VALIDATE"
    /\ LET processed == ProcessAll(get_in_validation, validation_queue)
           readyIdx == {k \in 1..Len(processed) : is_ready(processed[k])}
           ready == KeepIdx(processed, readyIdx)
           results == [k \in 1..Len(ready) |-> validated(ready[k])]
           attempts == SendAttempts(validated_not_sent \o results)
       IN \E ok \in SUBSET (1..Len(attempts)) :
            /\ validation_queue' = <<>>
            /\ in_validation_queue' = <<>>
            /\ in_validation' = StillInValidation(processed, readyIdx)
            /\ materialized' = materialized \cup Range(results)
            /\ validated_not_sent' = FailedBatches(attempts, ok)
            /\ accepted' = [accepted EXCEPT
                              !.validated = @ \cup AcceptedBatches(attempts, ok)]
            /\ lastTick' = [branch |-> "validate", attempted |-> attempts,
                            retried |-> Range(attempts) \cap Range(validated_not_sent)]
    /\ UNCHANGED <<phase_is_none, stop_event, generation_queue, generated_not_sent,
                   to_validate_batch_queue, drained, produced, submitted,
                   pendingSubmit, worker_chunks>>
    /\ UNCHANGED senderFrame
    /\ UNCHANGED workerVars

\* Sender.run(), one iteration with phase IDLE or STOP: only the sleep.
SenderTickIdle ==
    /\ ~stop_event
    /\ ~phase_is_none
    /\ phase \notin {"GENERATE", "VALIDATE"}
    /\ lastTick' = [branch |-> "idle", attempted |-> <<>>, retried |-> {}]
    /\ UNCHANGED <<phase_is_none, stop_event, generation_queue, generated_not_sent,
                   validation_queue, to_validate_batch_queue, in_validation_queue,
                   in_validation, validated_not_sent, accepted, drained,
                   materialized, produced, submitted, pendingSubmit, worker_chunks>>
    /\ UNCHANGED senderFrame
    /\ UNCHANGED workerVars

SenderTick ==
    \/ SenderTickDelegation
    \/ SenderTickGenerate
    \/ SenderTickValidate
    \/ SenderTickIdle

\* Sender.stop()
SenderStop ==
    /\ ~stop_event
    /\ stop_event' = TRUE
    /\ UNCHANGED <<phase_is_none, generation_queue, generated_not_sent,
                   validation_queue, to_validate_batch_queue, in_validation_queue,
                   in_validation, validated_not_sent, accepted, drained,
                   materialized, produced, submitted, pendingSubmit,
                   worker_chunks, lastTick>>
    /\ UNCHANGED senderFrame
    /\ UNCHANGED workerVars

SenderNext ==
    \/ PhaseNext
    \/ PutGenerated
    \/ ValidateRequestToWorkers
    \/ ValidateRequestToSender
    \/ PrepareNextBatch
    \/ ValidateChunk
    \/ ValidateChunkFails
    \/ SenderTick
    \/ SenderStop

\* C4: every batch the Sender has taken off the generated queue is part of a
\* body the endpoint accepted or is still in generated_not_sent, and every
\* ValidatedBatch the Sender has materialized was accepted or is still in
\* validated_not_sent.
C4_NoBatchDropped ==
    /\ \A b \in drained :
          \E m \in accepted.generated \cup Range(generated_not_sent) :
             Range(b) \subseteq Range(m)
    /\ \A v \in materialized :
          v \in accepted.validated \cup Range(validated_not_sent)

C4_Witness ==
    /\ lastTick.branch = "generate"
    /\ lastTick.retried # {}
    /\ generated_not_sent # <<>>
    /\ accepted.generated # {}
    /\ validated_not_sent # <<>>

\* C5 as stated: every iteration of Sender.run POSTs every batch that was in
\* generated_not_sent when the iteration began.
C5_RetryEveryTick ==
    [][SenderTick =>
          \A k \in 1..Len(generated_not_sent) :
              generated_not_sent[k] \in Range(lastTick'.attempted)]_vars

\* C5 amended: every iteration in which the Sender takes the generate branch
\* (phase GENERATE, or phase None) POSTs every batch that was in
\* generated_not_sent when it began; an accepted batch leaves the buffer, a
\* refused one stays.
C5_RetryOnGenerateTicks ==
    [][(SenderTickGenerate \/ SenderTickDelegation) =>
          \A k \in 1..Len(generated_not_sent) :
              /\ generated_not_sent[k] \in Range(lastTick'.attempted)
              /\ generated_not_sent[k] \in accepted'.generated
                    \/ generated_not_sent[k] \in Range(generated_not_sent')]_vars

C5_Witness ==
    /\ lastTick.branch = "generate"
    /\ \E b \in lastTick.retried : b \in accepted.generated
    /\ \E b \in lastTick.retried : b \in Range(generated_not_sent)

\* The number of entries of the sequence s that equal x.
CountOf(s, x) == Cardinality({k \in 1..Len(s) : s[k] = x})

\* C21: in a Sender tick of the VALIDATE branch every accumulator that is
\* ready is materialized exactly once, was never materialized before and
\* is gone from in_validation after the tick; no ValidatedBatch is twice in
\* validated_not_sent, or there after the endpoint accepted it.
C21_MaterializedOnce ==
    [][SenderTickValidate =>
          LET processed == ProcessAll(get_in_validation, validation_queue)
              readyIdx == {k \in 1..Len(processed) : is_ready(processed[k])}
          IN /\ \A k \in readyIdx :
                   LET v == validated(processed[k])
                   IN /\ v \notin materialized
                      /\ v \in materialized'
                      /\ CountOf(lastTick'.attempted, v) = 1
                      /\ \A j \in 1..Len(in_validation') :
                             in_validation'[j].batch # processed[k].batch
             /\ \A k \in 1..Len(validated_not_sent') :
                   /\ CountOf(validated_not_sent', validated_not_sent'[k]) = 1
                   /\ validated_not_sent'[k] \notin accepted'.validated]_vars

\* A ValidatedBatch was materialized and accepted, and a later tick of the
\* VALIDATE branch found nothing to report.
C21_Witness ==
    /\ materialized # {}
    /\ materialized \subseteq accepted.validated
    /\ lastTick.branch = "validate"
    /\ lastTick.attempted = <<>>

\* The accumulators that hold the nonces of a fragment.
AccumulatorsOf(in_vals, fragment) ==
    {k \in 1..Len(in_vals) : Range(fragment) \subseteq Range(in_vals[k].batch)}

\* C27: no validated fragment is consumed by the Sender before the
\* accumulator it belongs to has been registered: every fragment a VALIDATE
\* tick drains from the validated queue is fed to an accumulator of its
\* batch.
C27_FragmentFindsAccumulator ==
    [][SenderTickValidate =>
          \A f \in 1..Len(validation_queue) :
              AccumulatorsOf(get_in_validation, validation_queue[f]) # {}]_vars

\* C28: for every chunk the Worker takes from the chunks of the batches it
\* dequeued, one fragment with the nonces of the chunk is put on the
\* validated queue.
C28_FragmentPerChunk ==
    [][(worker_chunks # <<>> /\ worker_chunks' = Tail(worker_chunks)) =>
          validation_queue' = Append(validation_queue, Head(worker_chunks))]_vars

(***************************************************************************)
(* 4. Delegation server: DelegationManager and DelegationSession           *)
(***************************************************************************)
\* server.SESSION_TIMEOUT
SESSION_TIMEOUT == 330

\* DelegationManager.auth_token and the tokens a request may carry
auth_token == "token"
Tokens == {"token", "wrong"}

SessionIds == 1..MaxSessions

\* types.DelegationStatus; "NONE" marks an id that no session has yet.
Active == {"INITIALIZING", "GENERATING"}
Terminal == {"STOPPED", "EXPIRED", "ERROR"}

\* The internal ParallelController of a session, as far as is_running() and
\* start()/stop() see it: "none" (not constructed), "created" (constructed, no
\* process started), "running" (every process alive), "broken" (some process
\* died by itself), "dead" (processes killed by stop()).
ControllerStates == {"none", "created", "running", "broken", "dead"}

\* DelegationSession(session_id, small_node_params) at time t
NewSession(t) ==
    [status |-> "INITIALIZING", controller |-> "none",
     created_at |-> t, last_poll_at |-> t,
     batch_buffer |-> <<>>, total_generated |-> 0,
     queue |-> <<>>, produced |-> 0, returned |-> <<>>,
     ended |-> FALSE, expired |-> FALSE]

NoSession ==
    [status |-> "NONE", controller |-> "none",
     created_at |-> 0, last_poll_at |-> 0,
     batch_buffer |-> <<>>, total_generated |-> 0,
     queue |-> <<>>, produced |-> 0, returned |-> <<>>,
     ended |-> FALSE, expired |-> FALSE]

DelegInit ==
    /\ sessions = {}
    /\ sess = [s \in SessionIds |-> NoSession]
    /\ cpc = [s \in SessionIds |-> "none"]
    /\ collector = [s \in SessionIds |-> FALSE]
    /\ known = {}
    /\ allocated = 0
    /\ now = 0
    /\ clockSteps = 0
    /\ lastCall = [op |-> "none", result |-> "none"]

DelegPark == DelegInit

\* Faulty variant of validate_token: every token is accepted.
validate_token_accepts_all(token) == TRUE

\* DelegationManager.validate_token
validate_token(token) == token = auth_token

\* active_sessions of create_session: the registered sessions whose status is
\* INITIALIZING or GENERATING.
active_sessions == {s \in sessions : sess[s].status \in Active}

\* DelegationSession.is_expired()
is_expired(session) ==
    \/ now - session.created_at > SESSION_TIMEOUT
    \/ session.controller # "none" /\ session.controller # "running"

\* ParallelController.stop() on the internal controller: Controller.stop()
\* returns at once for a process that is not alive, and kills one that is.
controller_stopped(c) ==
    IF c \in {"running", "broken"} THEN "dead" ELSE c

\* Faulty variant of DelegationSession.stop(): the controller is stopped but
\* the status is left as it was.
stop_keeps_status(session) ==
    [session EXCEPT !.controller = controller_stopped(@), !.ended = TRUE]

\* DelegationSession.stop()
stop(session) ==
    [session EXCEPT !.status = "STOPPED",
                    !.controller = controller_stopped(@),
                    !.ended = TRUE]

\* DelegationSession.add_batch(batch)
add_batch(session, batch) ==
    [session EXCEPT !.batch_buffer = Append(@, batch),
                    !.total_generated = @ + 1]

\* time.time() moves on.
ClockAdvance ==
    /\ clockSteps < MaxClockSteps
    /\ \E d \in {1, SESSION_TIMEOUT} : now' = now + d
    /\ clockSteps' = clockSteps + 1
    /\ UNCHANGED <<sessions, sess, cpc, collector, known, allocated, lastCall>>
    /\ UNCHANGED delegFrame

\* A manager call that raises ValueError before it touches any session.
Refused(op, result) ==
    /\ lastCall' = [op |-> op, result |-> result]
    /\ UNCHANGED <<sessions, sess, cpc, collector, known, allocated, now, clockSteps>>
    /\ UNCHANGED delegFrame

\* create_session, the locked section when the limit is reached: ValueError.
CreateSessionRejected ==
    /\ Cardinality(active_sessions) >= max_sessions
    /\ lastCall' = [op |-> "create_session", result |-> "capacity"]
    /\ UNCHANGED <<sessions, sess, cpc, collector, known, allocated, now, clockSteps>>
    /\ UNCHANGED delegFrame

\* create_session, the locked section when there is room: a new session is
\* registered; start_generation follows outside the lock.
CreateSessionAccepted ==
    /\ Cardinality(active_sessions) < max_sessions
    /\ allocated < MaxSessions
    /\ LET s == allocated + 1
       IN /\ sess' = [sess EXCEPT ![s] = NewSession(now)]
          /\ sessions' = sessions \cup {s}
          /\ cpc' = [cpc EXCEPT ![s] = "ctor"]
    /\ allocated' = allocated + 1
    /\ lastCall' = [op |-> "create_session", result |-> "created"]
    /\ UNCHANGED <<collector, known, now, clockSteps>>
    /\ UNCHANGED delegFrame

\* start_generation: self.controller = ParallelController(...); an exception
\* (NotEnoughGPUResources, ...) sets ERROR and is raised to create_session.
StartGenerationCtor(s) ==
    /\ cpc[s] = "ctor"
    /\ \/ /\ sess' = [sess EXCEPT ![s].controller = "created"]
          /\ cpc' = [cpc EXCEPT ![s] = "start"]
       \/ /\ sess' = [sess EXCEPT ![s].status = "ERROR", ![s].ended = TRUE]
          /\ cpc' = [cpc EXCEPT ![s] = "pop"]
    /\ UNCHANGED <<sessions, collector, known, allocated, now, clockSteps, lastCall>>
    /\ UNCHANGED delegFrame

\* start_generation: self.controller.start() spawns the processes.
StartGenerationStart(s) ==
    /\ cpc[s] = "start"
    /\ sess' = [sess EXCEPT ![s].controller =
                   IF @ = "created" THEN "running" ELSE @]
    /\ cpc' = [cpc EXCEPT ![s] = "generate"]
    /\ UNCHANGED <<sessions, collector, known, allocated, now, clockSteps, lastCall>>
    /\ UNCHANGED delegFrame

\* start_generation: self.controller.start_generate();
\* self.status = DelegationStatus.GENERATING.
StartGenerationGenerating(s) ==
    /\ cpc[s] = "generate"
    /\ sess' = [sess EXCEPT ![s].status = "GENERATING"]
    /\ cpc' = [cpc EXCEPT ![s] = "collector"]
    /\ UNCHANGED <<sessions, collector, known, allocated, now, clockSteps, lastCall>>
    /\ UNCHANGED delegFrame

\* start_generation: self._start_batch_collector(); create_session returns
\* the session, so its id is known to the client.
StartGenerationCollector(s) ==
    /\ cpc[s] = "collector"
    /\ collector' = [collector EXCEPT ![s] = TRUE]
    /\ known' = known \cup {s}
    /\ cpc' = [cpc EXCEPT ![s] = "done"]
    /\ UNCHANGED <<sessions, sess, allocated, now, clockSteps, lastCall>>
    /\ UNCHANGED delegFrame

\* create_session after start_generation raised: the session is removed.
CreateSessionFailed(s) ==
    /\ cpc[s] = "pop"
    /\ sessions' = sessions \ {s}
    /\ cpc' = [cpc EXCEPT ![s] = "done"]
    /\ lastCall' = [op |-> "create_session", result |-> "error"]
    /\ UNCHANGED <<sess, collector, known, allocated, now, clockSteps>>
    /\ UNCHANGED delegFrame

\* A Worker of the session's controller puts a generated batch on the queue.
SessionWorkerGenerates(s) ==
    /\ sess[s].controller = "running"
    /\ sess[s].produced < MaxSessionBatches
    /\ sess' = [sess EXCEPT ![s].produced = @ + 1,
                            ![s].queue = Append(@, sess[s].produced + 1)]
    /\ UNCHANGED <<sessions, cpc, collector, known, allocated, now, clockSteps, lastCall>>
    /\ UNCHANGED delegFrame

\* A Worker process of the session's controller dies by itself.
SessionWorkerDies(s) ==
    /\ sess[s].controller = "running"
    /\ sess' = [sess EXCEPT ![s].controller = "broken"]
    /\ UNCHANGED <<sessions, cpc, collector, known, allocated, now, clockSteps, lastCall>>
    /\ UNCHANGED delegFrame

\* One pass of the while loop of collect_batches.
CollectBatches(s) ==
    /\ collector[s]
    /\ IF sess[s].status # "GENERATING"
         THEN /\ collector' = [collector EXCEPT ![s] = FALSE]
              /\ UNCHANGED sess
         ELSE LET drainedSession == [sess[s] EXCEPT !.queue = <<>>]
                  collected == IF sess[s].queue # <<>>
                                 THEN add_batch(drainedSession, Merge(
                                        [k \in 1..Len(sess[s].queue) |->
                                            <<sess[s].queue[k]>>]))
                                 ELSE drainedSession
              IN IF is_expired(collected)
                   THEN /\ sess' = [sess EXCEPT ![s] =
                                       [stop(collected) EXCEPT !.expired = TRUE]]
                        /\ collector' = [collector EXCEPT ![s] = FALSE]
                   ELSE /\ sess' = [sess EXCEPT ![s] = collected]
                        /\ UNCHANGED collector
    /\ UNCHANGED <<sessions, cpc, known, allocated, now, clockSteps, lastCall>>
    /\ UNCHANGED delegFrame

\* DelegationManager.create_session(request) with request.auth_token = token:
\* the token is validated before the locked section.
CreateSessionRequest(token) ==
    IF ~validate_token(token)
      THEN Refused("create_session", "invalid_token")
      ELSE CreateSessionRejected \/ CreateSessionAccepted

\* DelegationManager.get_batches -> DelegationSession.get_batches
GetBatches(s) ==
    /\ s \in known
    /\ s \in sessions
    /\ sess' = [sess EXCEPT ![s].returned = @ \o sess[s].batch_buffer,
                            ![s].batch_buffer = <<>>,
                            ![s].last_poll_at = now]
    /\ lastCall' = [op |-> "get_batches", result |-> "ok"]
    /\ UNCHANGED <<sessions, cpc, collector, known, allocated, now, clockSteps>>
    /\ UNCHANGED delegFrame

\* DelegationManager.stop_session
StopSession(s) ==
    /\ s \in known
    /\ s \in sessions
    /\ sess' = [sess EXCEPT ![s] = stop(@)]
    /\ lastCall' = [op |-> "stop_session", result |-> "ok"]
    /\ UNCHANGED <<sessions, cpc, collector, known, allocated, now, clockSteps>>
    /\ UNCHANGED delegFrame

\* DelegationManager.get_batches(session_id, auth_token): the token is
\* validated, then the session is looked up, then its buffer is handed out.
GetBatchesRequest(token, s) ==
    IF ~validate_token(token)
      THEN Refused("get_batches", "invalid_token")
      ELSE IF s \notin sessions
             THEN Refused("get_batches", "not_found")
             ELSE GetBatches(s)

\* DelegationManager.stop_session(session_id, auth_token): the token is
\* validated, then the session is looked up, then it is stopped.
StopSessionRequest(token, s) ==
    IF ~validate_token(token)
      THEN Refused("stop_session", "invalid_token")
      ELSE IF s \notin sessions
             THEN Refused("stop_session", "not_found")
             ELSE StopSession(s)

\* DelegationManager.cleanup_expired, called by the cleanup thread.
CleanupExpired ==
    /\ LET expired == {s \in sessions : is_expired(sess[s])}
       IN /\ sessions' = sessions \ expired
          /\ sess' = [s \in SessionIds |->
                         IF s \in expired
                           THEN [stop(sess[s]) EXCEPT !.expired = TRUE]
                           ELSE sess[s]]
          /\ lastCall' = [op |-> "cleanup_expired",
                          result |-> IF expired = {} THEN "none" ELSE "removed"]
    /\ UNCHANGED <<cpc, collector, known, allocated, now, clockSteps>>
    /\ UNCHANGED delegFrame

DelegNext ==
    \/ ClockAdvance
    \/ \E token \in Tokens : CreateSessionRequest(token)
    \/ \E s \in SessionIds : StartGenerationCtor(s)
    \/ \E s \in SessionIds : StartGenerationStart(s)
    \/ \E s \in SessionIds : StartGenerationGenerating(s)
    \/ \E s \in SessionIds : StartGenerationCollector(s)
    \/ \E s \in SessionIds : CreateSessionFailed(s)
    \/ \E s \in SessionIds : SessionWorkerGenerates(s)
    \/ \E s \in SessionIds : SessionWorkerDies(s)
    \/ \E s \in SessionIds : CollectBatches(s)
    \/ \E token \in Tokens : \E s \in SessionIds : GetBatchesRequest(token, s)
    \/ \E token \in Tokens : \E s \in SessionIds : StopSessionRequest(token, s)
    \/ CleanupExpired

\* The sessions whose status is INITIALIZING or GENERATING, registered or not.
ActiveSessions == {s \in SessionIds : sess[s].status \in Active}

\* The sessions that exist and have not ended (stopped, expired or failed).
LiveSessions == {s \in SessionIds : sess[s].status # "NONE" /\ ~sess[s].ended}

\* C6: the number of sessions in status INITIALIZING or GENERATING never
\* exceeds max_sessions.
C6_SessionLimit == Cardinality(ActiveSessions) <= max_sessions

\* C7: a create_session call (with a valid token) made while fewer than
\* max_sessions sessions exist that have not ended is accepted: a session
\* that was stopped or expired no longer counts toward the limit.
C7_EndedSessionFreesSlot ==
    [][(CreateSessionAccepted \/ CreateSessionRejected)
         /\ Cardinality(LiveSessions) < max_sessions
         /\ allocated < MaxSessions
         => lastCall'.result = "created" /\ sessions' # sessions]_vars

C7_Witness ==
    /\ lastCall = [op |-> "create_session", result |-> "created"]
    /\ allocated > max_sessions
    /\ \E s \in SessionIds : sess[s].ended /\ sess[s].status = "STOPPED"
    /\ Cardinality(ActiveSessions) = max_sessions

\* C8: a session whose status is STOPPED, EXPIRED or ERROR never becomes
\* GENERATING again.
C8_NoReturnToGenerating ==
    [][\A s \in SessionIds :
          sess[s].status \in Terminal => sess'[s].status # "GENERATING"]_vars

\* C9: a session the big node has ended on its own (timeout, or controller no
\* longer running; found by the collector or by the cleanup sweep) has status
\* EXPIRED.
C9_ExpiredStatus ==
    \A s \in SessionIds :
        sess[s].expired /\ sess[s].status \in Terminal => sess[s].status = "EXPIRED"

\* C11: a create_session, get_batches or stop_session call that carries a
\* token other than the manager's, and a get_batches or stop_session call
\* that names an id the manager does not hold, ends in an error and leaves
\* the set of sessions and every session (buffer, status, last_poll_at)
\* as they were.
C11_RefusedCallsChangeNothing ==
    [][/\ \A token \in Tokens \ {auth_token} :
             (lastCall'.op = "create_session" /\ CreateSessionRequest(token)) =>
                /\ lastCall'.result = "invalid_token"
                /\ UNCHANGED <<sessions, sess, allocated>>
       /\ \A token \in Tokens : \A s \in SessionIds :
             (token # auth_token \/ s \notin sessions) =>
                /\ (lastCall'.op = "get_batches" /\ GetBatchesRequest(token, s)) =>
                      /\ lastCall'.result \in {"invalid_token", "not_found"}
                      /\ UNCHANGED <<sessions, sess, allocated>>
                /\ (lastCall'.op = "stop_session" /\ StopSessionRequest(token, s)) =>
                      /\ lastCall'.result \in {"invalid_token", "not_found"}
                      /\ UNCHANGED <<sessions, sess, allocated>>]_vars

C11_Witness ==
    /\ lastCall.op \in {"get_batches", "stop_session"}
    /\ lastCall.result \in {"invalid_token", "not_found"}
    /\ \E s \in sessions : sess[s].status = "GENERATING" /\ sess[s].batch_buffer # <<>>
    /\ \E s \in known : s \notin sessions

\* C32: every session whose status is INITIALIZING or GENERATING is
\* registered in DelegationManager.sessions, and cleanup_expired removes or
\* stops no session whose start_generation has not finished.
C32_ActiveSessionsRegistered ==
    /\ [](\A s \in SessionIds : sess[s].status \in Active => s \in sessions)
    /\ [][CleanupExpired =>
             \A s \in SessionIds :
                 cpc[s] \in {"ctor", "start", "generate", "collector"} =>
                     s \in sessions' /\ sess'[s] = sess[s]]_vars

(***************************************************************************)
(* 5. The buffer of one DelegationSession under its lock                   *)
(***************************************************************************)
\* The collector thread calls add_batch; every poll request runs get_batches
\* in a thread of its own.
Pollers == 1..NumPollers
Threads == {0} \cup Pollers
CollectorThread == 0

BufferInit ==
    /\ lock = {}
    /\ batch_buffer = <<>>
    /\ total_generated = 0
    /\ tpc = [t \in Threads |-> "idle"]
    /\ batches = [p \in Pollers |-> <<>>]
    /\ responses = <<>>
    /\ polls = 0

BufferPark == BufferInit

\* threading.Lock: `with self.lock` may enter only while nobody holds it.
\* Faulty variant: the lock never blocks.
lock_never_blocks(holder) == TRUE

lock_is_free(holder) == holder = {}

\* add_batch: with self.lock
AddBatchEnter ==
    /\ tpc[CollectorThread] = "idle"
    /\ total_generated < MaxBufferBatches
    /\ lock_is_free(lock)
    /\ lock' = {CollectorThread}
    /\ tpc' = [tpc EXCEPT ![CollectorThread] = "append"]
    /\ UNCHANGED <<batch_buffer, total_generated, batches, responses, polls>>
    /\ UNCHANGED bufferFrame

\* add_batch: self.batch_buffer.append(batch)
AddBatchAppend ==
    /\ tpc[CollectorThread] = "append"
    /\ batch_buffer' = Append(batch_buffer, total_generated + 1)
    /\ tpc' = [tpc EXCEPT ![CollectorThread] = "count"]
    /\ UNCHANGED <<lock, total_generated, batches, responses, polls>>
    /\ UNCHANGED bufferFrame

\* add_batch: self.total_generated += 1, end of the with block
AddBatchCount ==
    /\ tpc[CollectorThread] = "count"
    /\ total_generated' = total_generated + 1
    /\ lock' = {}
    /\ tpc' = [tpc EXCEPT ![CollectorThread] = "idle"]
    /\ UNCHANGED <<batch_buffer, batches, responses, polls>>
    /\ UNCHANGED bufferFrame

\* get_batches: with self.lock
GetBatchesEnter(p) ==
    /\ tpc[p] = "idle"
    /\ polls < MaxPolls
    /\ lock_is_free(lock)
    /\ lock' = {p}
    /\ polls' = polls + 1
    /\ tpc' = [tpc EXCEPT ![p] = "copy"]
    /\ UNCHANGED <<batch_buffer, total_generated, batches, responses>>
    /\ UNCHANGED bufferFrame

\* get_batches: batches = self.batch_buffer.copy()
GetBatchesCopy(p) ==
    /\ tpc[p] = "copy"
    /\ batches' = [batches EXCEPT ![p] = batch_buffer]
    /\ tpc' = [tpc EXCEPT ![p] = "clear"]
    /\ UNCHANGED <<lock, batch_buffer, total_generated, responses, polls>>
    /\ UNCHANGED bufferFrame

\* Faulty variant: the buffer is left as it is.
cleared_keeps(buffer) == buffer

\* list.clear()
cleared(buffer) == <<>>

\* get_batches: self.batch_buffer.clear()
GetBatchesClear(p) ==
    /\ tpc[p] = "clear"
    /\ batch_buffer' = cleared(batch_buffer)
    /\ tpc' = [tpc EXCEPT ![p] = "return"]
    /\ UNCHANGED <<lock, total_generated, batches, responses, polls>>
    /\ UNCHANGED bufferFrame

\* get_batches: return batches, end of the with block
GetBatchesReturn(p) ==
    /\ tpc[p] = "return"
    /\ responses' = Append(responses, batches[p])
    /\ batches' = [batches EXCEPT ![p] = <<>>]
    /\ lock' = {}
    /\ tpc' = [tpc EXCEPT ![p] = "idle"]
    /\ UNCHANGED <<batch_buffer, total_generated, polls>>
    /\ UNCHANGED bufferFrame

BufferNext ==
    \/ AddBatchEnter
    \/ AddBatchAppend
    \/ AddBatchCount
    \/ \E p \in Pollers : GetBatchesEnter(p)
    \/ \E p \in Pollers : GetBatchesCopy(p)
    \/ \E p \in Pollers : GetBatchesClear(p)
    \/ \E p \in Pollers : GetBatchesReturn(p)

\* How many times batch b occurs in the sequence s.
Occurrences(s, b) == Cardinality({k \in 1..Len(s) : s[k] = b})

\* Every batch get_batches has returned so far, in order.
Returned == Merge(responses)

\* The batches a poller has taken out of the buffer and is about to return.
InHand(p) == IF tpc[p] = "return" THEN batches[p] ELSE <<>>

\* The batches whose append has been done.
Added ==
    1..(IF tpc[CollectorThread] = "count" THEN total_generated + 1
        ELSE total_generated)

\* C10: a batch added to the buffer is returned by at most one get_batches
\* call, and every added batch is in exactly one place: still in the buffer,
\* in the hands of the one poll that took it, or in one response.
C10_ExactlyOncePerPoll ==
    /\ \A b \in 1..MaxBufferBatches : Occurrences(Returned, b) <= 1
    /\ \A b \in Added :
          Occurrences(batch_buffer, b) + Occurrences(Returned, b)
            + Cardinality({p \in Pollers : b \in Range(InHand(p))}) = 1

C10_Witness ==
    /\ Len(responses) >= 2
    /\ \E i \in 1..Len(responses) : \E j \in 1..Len(responses) :
          i # j /\ responses[i] # <<>> /\ responses[j] # <<>>

max_consecutive_errors == 10

ClientInit ==
    /\ client_running = FALSE
    /\ has_session_id = FALSE
    /\ consecutive_errors = 0
    /\ poll_pc = "none"
    /\ client_received = 0
    /\ pollLog = <<>>
    /\ stoppedBy = "none"
    /\ stop_result = "none"

ClientPark == ClientInit

\* Faulty variant: a successful poll leaves the counter as it is.
after_success_keeps(errors) == errors

\* _poll_loop, "consecutive_errors = 0" after a successful poll
after_success(errors) == 0

\* _poll_loop, "consecutive_errors += 1" in both except clauses
after_failure(errors) == errors + 1

\* DelegationClient.start(): POST /delegation/start; on success the session
\* id is stored, _running is set and a new poll thread starts its loop with
\* consecutive_errors = 0. On failure the exception is raised.
ClientStart ==
    /\ ~client_running
    /\ poll_pc # "loop"
    /\ stop_result # "joining"
    /\ \/ /\ has_session_id' = TRUE
          /\ client_running' = TRUE
          /\ poll_pc' = "loop"
          /\ consecutive_errors' = 0
          /\ pollLog' = <<>>
          /\ stoppedBy' = "none"
          /\ stop_result' = "none"
       \/ UNCHANGED <<has_session_id, client_running, poll_pc,
                      consecutive_errors, pollLog, stoppedBy, stop_result>>
    /\ UNCHANGED client_received
    /\ UNCHANGED clientFrame

\* One iteration of _poll_loop whose GET succeeds and parses: n batches are
\* queued; session_active = false ends the loop, otherwise the counter is
\* reset.
PollSucceeds(n, session_active) ==
    /\ poll_pc = "loop"
    /\ client_running
    /\ has_session_id
    /\ Len(pollLog) < MaxClientPolls
    /\ client_received + n <= MaxClientBatches
    /\ client_received' = client_received + n
    /\ pollLog' = Append(pollLog, "ok")
    /\ IF ~session_active
         THEN /\ client_running' = FALSE
              /\ poll_pc' = "exited"
              /\ stoppedBy' = "inactive"
              /\ UNCHANGED consecutive_errors
         ELSE /\ consecutive_errors' = after_success(consecutive_errors)
              /\ UNCHANGED <<client_running, poll_pc, stoppedBy>>
    /\ UNCHANGED <<has_session_id, stop_result>>
    /\ UNCHANGED clientFrame

\* One iteration of _poll_loop whose GET raises (RequestException, or any
\* other exception while the answer is parsed): the counter goes up, and at
\* max_consecutive_errors the client marks itself not running and leaves.
PollFails ==
    /\ poll_pc = "loop"
    /\ client_running
    /\ has_session_id
    /\ Len(pollLog) < MaxClientPolls
    /\ pollLog' = Append(pollLog, "fail")
    /\ consecutive_errors' = after_failure(consecutive_errors)
    /\ IF after_failure(consecutive_errors) >= max_consecutive_errors
         THEN /\ client_running' = FALSE
              /\ poll_pc' = "exited"
              /\ stoppedBy' = "errors"
         ELSE UNCHANGED <<client_running, poll_pc, stoppedBy>>
    /\ UNCHANGED <<has_session_id, client_received, stop_result>>
    /\ UNCHANGED clientFrame

\* DelegationClient.stop() while not running: "if not self._running: return".
ClientStopNotRunning ==
    /\ ~client_running
    /\ stop_result # "joining"
    /\ stop_result' = "early"
    /\ UNCHANGED <<client_running, has_session_id, consecutive_errors, poll_pc,
                   client_received, pollLog, stoppedBy>>
    /\ UNCHANGED clientFrame

\* DelegationClient.stop(), the locked section: _running = False.
ClientStop ==
    /\ client_running
    /\ client_running' = FALSE
    /\ stop_result' = "joining"
    /\ UNCHANGED <<has_session_id, consecutive_errors, poll_pc,
                   client_received, pollLog, stoppedBy>>
    /\ UNCHANGED clientFrame

\* _poll_loop: the while condition finds _running false.
PollLoopExit ==
    /\ poll_pc = "loop"
    /\ ~client_running
    /\ poll_pc' = "exited"
    /\ stoppedBy' = "stop"
    /\ UNCHANGED <<client_running, has_session_id, consecutive_errors,
                   client_received, pollLog, stop_result>>
    /\ UNCHANGED clientFrame

\* DelegationClient.stop() after the join: the stop request with session_id
\* is posted to the big node and session_id = None.
ClientStopFinish ==
    /\ ~client_running
    /\ poll_pc = "exited"
    /\ stop_result = "joining"
    /\ has_session_id
    /\ has_session_id' = FALSE
    /\ stop_result' = "asked"
    /\ UNCHANGED <<client_running, consecutive_errors, poll_pc,
                   client_received, pollLog, stoppedBy>>
    /\ UNCHANGED clientFrame

ClientNext ==
    \/ ClientStart
    \/ \E n \in 0..1 : \E session_active \in BOOLEAN : PollSucceeds(n, session_active)
    \/ PollFails
    \/ ClientStop
    \/ ClientStopNotRunning
    \/ PollLoopExit
    \/ ClientStopFinish

\* The number of polls that failed in a row at the end of the log.
FailedInARow ==
    LET F[k \in 0..Len(pollLog)] ==
            IF k = 0 THEN 0
            ELSE IF pollLog[k] = "fail" THEN F[k - 1] + 1 ELSE 0
    IN F[Len(pollLog)]

\* C12: the counter of the poll loop is the number of polls that failed in a
\* row; the loop has given up (client marked not running) exactly when that
\* number has reached max_consecutive_errors, whatever failures came before
\* the last successful poll.
C12_GivesUpAfterTenInARow ==
    /\ poll_pc = "loop" => consecutive_errors = FailedInARow
    /\ stoppedBy = "errors" <=> FailedInARow >= max_consecutive_errors
    /\ stoppedBy = "errors" => ~client_running /\ poll_pc = "exited"
    /\ FailedInARow <= max_consecutive_errors

C12_Witness ==
    /\ stoppedBy = "errors"
    /\ Len(pollLog) > max_consecutive_errors
    /\ \E k \in 1..Len(pollLog) : pollLog[k] = "ok"
    /\ Cardinality({k \in 1..Len(pollLog) : pollLog[k] = "fail"})
          > max_consecutive_errors

\* C34: once DelegationClient.stop() has returned, session_id is None, and
\* when the poll loop had ended before (on its own or by the stop), the big
\* node was sent the stop request of the session.
C34_StopAsksBigNode ==
    stop_result \in {"asked", "early"} =>
        /\ ~has_session_id
        /\ stoppedBy # "none" => stop_result = "asked"

(***************************************************************************)
(* 7. PowManager and the routes of the API                                 *)
(***************************************************************************)
\* PowManager.__init__. running / local_running: is_running() of
\* pow_controller / local_controller. cell: the Phase cell of the
\* ParallelController the manager holds ("none" when it holds none).
\* sender_phase: the phase argument the Sender was built with.
\* workers_alive: the live Worker processes of the manager's
\* ParallelController; sender_alive: the Sender process is alive.
NewPowManager ==
    [pow_controller |-> "None", local_controller |-> "None",
     pow_sender |-> "None", sender_phase |-> "none",
     init_request |-> FALSE, using_delegation |-> FALSE,
     running |-> FALSE, local_running |-> FALSE, cell |-> "none",
     to_validate |-> 0, in_validation_queue |-> 0, raised |-> "none",
     workers_alive |-> 0, sender_alive |-> FALSE]

ManagerInit ==
    /\ mgr = NewPowManager
    /\ delegation_enabled \in BOOLEAN
    /\ lastResponse = [route |-> "none", code |-> 0]

ManagerPark ==
    /\ mgr = NewPowManager
    /\ delegation_enabled = FALSE
    /\ lastResponse = [route |-> "none", code |-> 0]

\* The keyword arguments Sender.__init__ declares.
SenderParameters ==
    {"url", "generation_queue", "validation_queue", "phase", "r_target",
     "fraud_threshold"}

\* The keyword arguments PowManager.init passes to Sender(...) in delegation
\* mode and in local mode.
DelegationSenderArguments == SenderParameters \cup {"using_delegation"}
LocalSenderArguments == SenderParameters

\* The methods the routes call on manager.pow_controller, per class.
Methods(class) ==
    IF class = "ParallelController"
      THEN {"start", "stop", "is_running", "is_alive", "start_generate",
            "start_validate", "to_validate"}
      ELSE IF class = "DelegationClient"
             THEN {"start", "stop", "is_running", "is_alive", "start_generate",
                   "get_gpu_count"}
             ELSE {}

\* PowManager.is_running()
PowManagerIsRunning(m) ==
    IF m.pow_controller = "None" THEN FALSE
    ELSE IF m.using_delegation /\ m.local_controller # "None"
           THEN m.running /\ m.local_running
           ELSE m.running

\* PowManager.init(init_request)
PowManagerInit(m) ==
    IF delegation_enabled
      THEN LET made == [m EXCEPT !.init_request = TRUE,
                                 !.pow_controller = "DelegationClient",
                                 !.using_delegation = TRUE,
                                 !.running = FALSE,
                                 !.local_controller = "ParallelController",
                                 !.local_running = FALSE,
                                 !.cell = "IDLE",
                                 !.to_validate = 0]
           IN IF DelegationSenderArguments \subseteq SenderParameters
                THEN [made EXCEPT !.pow_sender = "Sender",
                                  !.sender_phase = "local_controller.phase",
                                  !.in_validation_queue = 0]
                ELSE [made EXCEPT !.raised = "TypeError"]
      ELSE LET made == [m EXCEPT !.init_request = TRUE,
                                 !.pow_controller = "ParallelController",
                                 !.using_delegation = FALSE,
                                 !.running = FALSE,
                                 !.cell = "IDLE",
                                 !.to_validate = 0]
           IN IF LocalSenderArguments \subseteq SenderParameters
                THEN [made EXCEPT !.pow_sender = "Sender",
                                  !.sender_phase = "pow_controller.phase",
                                  !.in_validation_queue = 0]
                ELSE [made EXCEPT !.raised = "TypeError"]

\* IManager.start() -> PowManager._start()
PowManagerStart(m) ==
    IF m.pow_controller = "None" \/ m.running
      THEN [m EXCEPT !.raised = "Exception"]
      ELSE LET started == [m EXCEPT !.running = TRUE,
                                    !.workers_alive =
                                        IF m.pow_controller = "ParallelController"
                                          THEN NumWorkers ELSE @]
               both == IF m.using_delegation /\ m.local_controller # "None"
                         THEN [started EXCEPT !.local_running = TRUE,
                                              !.workers_alive = NumWorkers]
                         ELSE started
           IN IF m.pow_sender = "None"
                THEN [both EXCEPT !.raised = "AttributeError"]
                ELSE [both EXCEPT !.sender_alive = TRUE]

\* IManager.stop() -> PowManager._stop(). ParallelController.stop() lets every
\* Controller write Phase.STOP.
PowManagerStop(m) ==
    LET first == [m EXCEPT !.running = FALSE,
                           !.cell = IF m.pow_controller = "ParallelController"
                                      THEN "STOP" ELSE @,
                           !.workers_alive =
                               IF m.pow_controller = "ParallelController"
                                 THEN 0 ELSE @]
        second == IF m.using_delegation /\ m.local_controller # "None"
                    THEN [first EXCEPT !.local_running = FALSE, !.cell = "STOP",
                                       !.workers_alive = 0]
                    ELSE first
    IN IF m.pow_sender = "None"
         THEN [second EXCEPT !.raised = "AttributeError"]
         ELSE [second EXCEPT !.pow_controller = "None",
                             !.local_controller = "None",
                             !.pow_sender = "None",
                             !.sender_alive = FALSE,
                             !.sender_phase = "none",
                             !.init_request = FALSE,
                             !.cell = "none",
                             !.to_validate = 0,
                             !.in_validation_queue = 0]

\* PowManager.switch_to_pow(init_request)
switch_to_pow(m) ==
    LET stopped == IF m.pow_controller # "None" THEN PowManagerStop(m) ELSE m
    IN IF stopped.raised # "none" THEN stopped
       ELSE LET made == PowManagerInit(stopped)
            IN IF made.raised # "none" THEN made ELSE PowManagerStart(made)

\* What a route answers, and the manager it leaves, after a call that may
\* have raised: an unhandled exception is a 500.
Answer(route, m) ==
    /\ mgr' = [m EXCEPT !.raised = "none"]
    /\ lastResponse' = [route |-> route,
                        code |-> IF m.raised = "none" THEN 200 ELSE 500]
    /\ UNCHANGED delegation_enabled
    /\ UNCHANGED managerFrame

\* A route that raises HTTPException(400) and touches nothing.
BadRequest(route) ==
    /\ lastResponse' = [route |-> route, code |-> 400]
    /\ UNCHANGED <<mgr, delegation_enabled>>
    /\ UNCHANGED managerFrame

\* POST /pow/init
RouteInit ==
    LET switched == switch_to_pow(mgr)
    IN /\ mgr' = [switched EXCEPT !.raised = "none"]
       /\ lastResponse' = [route |-> "init",
                           code |-> IF switched.raised = "none" THEN 200 ELSE 500]
       /\ UNCHANGED delegation_enabled
       /\ UNCHANGED managerFrame

\* POST /pow/phase/generate
RoutePhaseGenerate ==
    IF ~mgr.init_request
      THEN Answer("phase_generate", [mgr EXCEPT !.raised = "AttributeError"])
      ELSE IF ~PowManagerIsRunning(mgr)
             THEN BadRequest("phase_generate")
             ELSE Answer("phase_generate",
                    IF mgr.pow_controller = "ParallelController"
                      THEN [mgr EXCEPT !.cell = "GENERATE"]
                      ELSE mgr)

\* POST /pow/phase/validate
RoutePhaseValidate ==
    IF ~PowManagerIsRunning(mgr)
      THEN BadRequest("phase_validate")
      ELSE Answer("phase_validate",
             IF "start_validate" \in Methods(mgr.pow_controller)
               THEN [mgr EXCEPT !.cell = "VALIDATE"]
               ELSE [mgr EXCEPT !.raised = "AttributeError"])

\* POST /pow/validate
RouteValidate ==
    /\ mgr.to_validate < MaxManagerBatches
    /\ mgr.in_validation_queue < MaxManagerBatches
    /\ IF ~PowManagerIsRunning(mgr)
         THEN BadRequest("validate")
         ELSE Answer("validate",
                IF "to_validate" \in Methods(mgr.pow_controller)
                  THEN [mgr EXCEPT !.to_validate = @ + 1,
                                   !.in_validation_queue = @ + 1]
                  ELSE [mgr EXCEPT !.raised = "AttributeError"])

\* POST /pow/stop
RouteStop ==
    IF ~PowManagerIsRunning(mgr)
      THEN Answer("stop", mgr)
      ELSE Answer("stop", PowManagerStop(mgr))

\* A Worker process of the ParallelController dies by itself.
ManagerWorkerDies ==
    /\ mgr.pow_controller = "ParallelController"
    /\ mgr.running
    /\ mgr' = [mgr EXCEPT !.running = FALSE, !.workers_alive = @ - 1]
    /\ UNCHANGED <<delegation_enabled, lastResponse>>
    /\ UNCHANGED managerFrame

\* The Workers drain the to-validate queue; the Sender drains its
\* in_validation_queue.
ManagerQueuesDrained ==
    /\ mgr.to_validate > 0
    /\ \E w \in 0..mgr.to_validate : \E q \in 0..mgr.in_validation_queue :
          /\ w + q < mgr.to_validate + mgr.in_validation_queue
          /\ mgr' = [mgr EXCEPT !.to_validate = w, !.in_validation_queue = q]
    /\ UNCHANGED <<delegation_enabled, lastResponse>>
    /\ UNCHANGED managerFrame

ManagerNext ==
    \/ RouteInit
    \/ RoutePhaseGenerate
    \/ RoutePhaseValidate
    \/ RouteValidate
    \/ RouteStop
    \/ ManagerWorkerDies
    \/ ManagerQueuesDrained

\* C13: in delegation mode a start-validate request and a batch submitted
\* for validation are answered 200 and handled by the local
\* ParallelController.
C13_ValidationStaysLocal ==
    (delegation_enabled /\ mgr.init_request
       /\ lastResponse.route \in {"phase_validate", "validate"})
      => /\ lastResponse.code = 200
         /\ mgr.local_controller = "ParallelController"
         /\ lastResponse.route = "phase_validate" => mgr.cell = "VALIDATE"

\* C14: in delegation mode, once the manager has been initialised there is a
\* Sender, and it was built without a Phase cell, so that its loop forwards
\* generated batches whatever the local Phase is.
C14_DelegationSenderIgnoresPhase ==
    (delegation_enabled /\ mgr.pow_controller = "DelegationClient")
      => mgr.pow_sender = "Sender" /\ mgr.sender_phase = "None"

\* C36: after a PoW stop request has returned, no Worker process and no
\* Sender process of the manager is alive and pow_controller is None
\* (stated for a manager in local mode).
C36_StopTearsDown ==
    (~delegation_enabled /\ lastResponse.route = "stop") =>
        /\ mgr.workers_alive = 0
        /\ ~mgr.sender_alive
        /\ mgr.pow_controller = "None"

(***************************************************************************)
(* 8. Controller.stop(): tearing down the process tree of a Worker         *)
(***************************************************************************)
Procs == 0..MaxChildren
WorkerProcess == 0

TeardownInit ==
    /\ proc = [p \in Procs |-> "unborn"]
    /\ parent_of = [p \in Procs |-> WorkerProcess]
    /\ orphaned = {}
    /\ sigterm = {}
    /\ stop_pc = "idle"
    /\ processes = {}
    /\ reaped = FALSE
    /\ signalled = {}
    /\ killed = {}

TeardownPark == TeardownInit

\* psutil: parent.children(recursive=True), the live processes whose chain
\* of parents leads to the Worker; a process re-parented after its parent's
\* death is no longer one of them.
RECURSIVE ChildrenWithin(_, _)
ChildrenWithin(roots, depth) ==
    IF depth = 0 THEN {}
    ELSE LET direct == {p \in Procs \ {WorkerProcess} :
                           /\ proc[p] = "alive"
                           /\ p \notin orphaned
                           /\ parent_of[p] \in roots}
         IN direct \cup ChildrenWithin(direct, depth - 1)

children_recursive == ChildrenWithin({WorkerProcess}, MaxChildren)

\* The state of the processes after p has exited: its live children are
\* re-parented.
Exited(p) ==
    /\ proc' = [proc EXCEPT ![p] = "dead"]
    /\ orphaned' = orphaned \cup {c \in Procs : proc[c] = "alive" /\ parent_of[c] = p
                                                /\ c # p /\ c # WorkerProcess}
    /\ sigterm' = sigterm \ {p}

\* Controller.start(): self.process.start()
ControllerStartsProcess ==
    /\ proc[WorkerProcess] = "unborn"
    /\ stop_pc = "idle"
    /\ proc' = [proc EXCEPT ![WorkerProcess] = "alive"]
    /\ UNCHANGED <<parent_of, orphaned, sigterm, stop_pc, processes, reaped,
                   signalled, killed>>
    /\ UNCHANGED teardownFrame

\* A live process of the tree spawns a child.
ProcessSpawns(p, c) ==
    /\ proc[p] = "alive"
    /\ c # WorkerProcess
    /\ proc[c] = "unborn"
    /\ proc' = [proc EXCEPT ![c] = "alive"]
    /\ parent_of' = [parent_of EXCEPT ![c] = p]
    /\ UNCHANGED <<orphaned, sigterm, stop_pc, processes, reaped, signalled, killed>>
    /\ UNCHANGED teardownFrame

\* A live process exits by itself (end of run(), crash, killed from outside).
ProcessExits(p) ==
    /\ proc[p] = "alive"
    /\ Exited(p)
    /\ UNCHANGED <<parent_of, stop_pc, processes, reaped, signalled, killed>>
    /\ UNCHANGED teardownFrame

\* A process handles a delivered SIGTERM: it exits, or it ignores the signal.
ProcessHandlesSigterm(p) ==
    /\ p \in sigterm
    /\ proc[p] = "alive"
    /\ \/ Exited(p)
       \/ /\ sigterm' = sigterm \ {p}
          /\ UNCHANGED <<proc, orphaned>>
    /\ UNCHANGED <<parent_of, stop_pc, processes, reaped, signalled, killed>>
    /\ UNCHANGED teardownFrame

\* Controller.stop(): "if not self.process.is_alive(): return". is_alive()
\* polls the process and so reaps one that has exited.
StopCall ==
    /\ stop_pc = "idle"
    /\ IF proc[WorkerProcess] = "alive"
         THEN /\ stop_pc' = "snapshot"
              /\ UNCHANGED reaped
         ELSE /\ stop_pc' = "returned"
              /\ reaped' = (proc[WorkerProcess] = "dead")
    /\ UNCHANGED <<proc, parent_of, orphaned, sigterm, processes, signalled, killed>>
    /\ UNCHANGED teardownFrame

\* Controller.stop(): parent = psutil.Process(pid);
\* processes = parent.children(recursive=True) + [parent]. NoSuchProcess when
\* the Worker is gone by now: straight to the join.
StopSnapshot ==
    /\ stop_pc = "snapshot"
    /\ IF proc[WorkerProcess] = "alive"
         THEN /\ processes' = children_recursive \cup {WorkerProcess}
              /\ stop_pc' = "terminate"
         ELSE /\ stop_pc' = "join"
              /\ UNCHANGED processes
    /\ UNCHANGED <<proc, parent_of, orphaned, sigterm, reaped, signalled, killed>>
    /\ UNCHANGED teardownFrame

\* Controller.stop(): proc.terminate() for every process of the list.
StopTerminate ==
    /\ stop_pc = "terminate"
    /\ sigterm' = sigterm \cup {p \in processes : proc[p] = "alive"}
    /\ signalled' = signalled \cup processes
    /\ stop_pc' = "wait"
    /\ UNCHANGED <<proc, parent_of, orphaned, processes, reaped, killed>>
    /\ UNCHANGED teardownFrame

\* Controller.stop(): psutil.wait_procs(processes, timeout=TERMINATION_TIMEOUT)
\* returns when every process of the list is gone or when the timeout is
\* over; proc.kill() for every process of the list still alive.
StopWaitAndKill(timed_out) ==
    /\ stop_pc = "wait"
    /\ timed_out \/ \A p \in processes : proc[p] # "alive"
    /\ LET alive == {p \in processes : proc[p] = "alive"}
       IN /\ proc' = [p \in Procs |-> IF p \in alive THEN "dead" ELSE proc[p]]
          /\ orphaned' = orphaned \cup
                {c \in Procs \ alive : proc[c] = "alive" /\ parent_of[c] \in alive
                                       /\ c # WorkerProcess}
          /\ sigterm' = sigterm \ alive
          /\ killed' = killed \cup alive
    /\ stop_pc' = "join"
    /\ UNCHANGED <<parent_of, processes, reaped, signalled>>
    /\ UNCHANGED teardownFrame

\* Controller.stop(): self.process.join(timeout=TERMINATION_TIMEOUT)
StopJoin ==
    /\ stop_pc = "join"
    /\ reaped' = (proc[WorkerProcess] = "dead")
    /\ stop_pc' = "returned"
    /\ UNCHANGED <<proc, parent_of, orphaned, sigterm, processes, signalled, killed>>
    /\ UNCHANGED teardownFrame

TeardownNext ==
    \/ ControllerStartsProcess
    \/ \E p \in Procs : \E c \in Procs : ProcessSpawns(p, c)
    \/ \E p \in Procs : ProcessExits(p)
    \/ \E p \in Procs : ProcessHandlesSigterm(p)
    \/ StopCall
    \/ StopSnapshot
    \/ StopTerminate
    \/ \E timed_out \in BOOLEAN : StopWaitAndKill(timed_out)
    \/ StopJoin

\* C15: when Controller.stop() has returned, the Worker process and every
\* process it spawned are dead and the Worker has been reaped.
C15_StopLeavesNoProcess ==
    stop_pc = "returned" =>
        /\ \A p \in Procs : proc[p] # "alive"
        /\ proc[WorkerProcess] = "dead" => reaped

\* C15, the Worker alive at the call: the same, for the calls that found the
\* Worker process alive and went through terminate, wait and kill.
C15_StopOfLiveWorkerLeavesNoProcess ==
    (stop_pc = "returned" /\ WorkerProcess \in signalled) =>
        \A p \in Procs : proc[p] # "alive"

(***************************************************************************)
(* 9. create_gpu_groups(): partitioning the accelerators into groups       *)
(***************************************************************************)
VramValues == {6, 8, 10, 12, 16, 24}
MinVramValues == {23, 41}

\* The two eight-device machines of the unit tests.
TestVectors == { <<6, 6, 6, 6, 6, 6, 6, 6>>, <<24, 8, 8, 8, 8, 12, 24, 24>> }

VramVectors ==
    (UNION {[1..n -> VramValues] : n \in 0..MaxDevices}) \cup TestVectors

device_count == Len(vram_per_device)

GroupsInit ==
    /\ cuda_available \in BOOLEAN
    /\ vram_per_device \in VramVectors
    /\ min_vram_gb \in MinVramValues
    /\ groups_pc = "idle"
    /\ next_device = 0
    /\ gpu_groups = <<>>
    /\ groups_error = ""
    /\ outcomes = <<>>

GroupsPark ==
    /\ cuda_available = FALSE
    /\ vram_per_device = <<>>
    /\ min_vram_gb = 23
    /\ groups_pc = "idle"
    /\ next_device = 0
    /\ gpu_groups = <<>>
    /\ groups_error = ""
    /\ outcomes = <<>>

\* Group sizes are searched in the order 1, 2, 4, 8, ...
IsGroupSize(size) == \E k \in 0..size : 2^k = size

\* The devices first, first + 1, ..., first + size - 1.
GpuGroup(first, size) == [k \in 1..size |-> first + k - 1]

RECURSIVE TotalVram(_, _)
TotalVram(vram, devices) ==
    IF devices = <<>> THEN 0
    ELSE vram[Head(devices) + 1] + TotalVram(vram, Tail(devices))

get_total_vram_gb(group) == TotalVram(vram_per_device, group)

\* The sizes of a group starting at device first that reach min_vram_gb.
FittingSizes(vram, min, first) ==
    {size \in 1..(Len(vram) - first) :
        /\ IsGroupSize(size)
        /\ TotalVram(vram, GpuGroup(first, size)) >= min}

\* Faulty variant: the largest fitting size is taken.
LargestFittingSize(sizes) == CHOOSE size \in sizes : \A t \in sizes : t <= size

\* "prefer the smallest possible group size per device"
SmallestFittingSize(sizes) == CHOOSE size \in sizes : \A t \in sizes : size <= t

\* Faulty variant: the scan moves on by one device whatever the group's size.
NextAfterFirstOnly(first, size) == first + 1

\* The scan continues behind the group just formed.
NextAfter(first, size) == first + size

\* Faulty variant: an empty enumeration is not noticed.
NoDevicesIgnored(count) == FALSE

NoDevices(count) == count = 0

Finish(pc, groups, error) ==
    /\ groups_pc' = pc
    /\ gpu_groups' = groups
    /\ groups_error' = error
    /\ outcomes' = Append(outcomes, [groups |-> groups, error |-> error])

\* create_gpu_groups(min_vram_gb) is called: the accelerators are
\* enumerated, and the call fails at once when there are none.
CreateGroupsCall ==
    /\ groups_pc # "scanning"
    /\ Len(outcomes) < MaxCalls
    /\ next_device' = 0
    /\ IF ~cuda_available
         THEN Finish("raised", <<>>, "CUDA is not available")
       ELSE IF NoDevices(device_count)
         THEN Finish("raised", <<>>, "No CUDA devices found")
       ELSE /\ groups_pc' = "scanning"
            /\ gpu_groups' = <<>>
            /\ groups_error' = ""
            /\ UNCHANGED outcomes
    /\ UNCHANGED <<cuda_available, vram_per_device, min_vram_gb>>
    /\ UNCHANGED groupsFrame

\* The next ungrouped device starts a group of the smallest size whose
\* total VRAM reaches the threshold.
FormGroup ==
    /\ groups_pc = "scanning"
    /\ next_device < device_count
    /\ LET sizes == FittingSizes(vram_per_device, min_vram_gb, next_device)
       IN /\ sizes # {}
          /\ LET size == SmallestFittingSize(sizes)
             IN /\ gpu_groups' = Append(gpu_groups, GpuGroup(next_device, size))
                /\ next_device' = NextAfter(next_device, size)
    /\ UNCHANGED <<cuda_available, vram_per_device, min_vram_gb, groups_pc,
                   groups_error, outcomes>>
    /\ UNCHANGED groupsFrame

\* No group of any size can start at the next ungrouped device: the devices
\* left over make the call fail.
RaiseNotEnoughGPUResources ==
    /\ groups_pc = "scanning"
    /\ next_device < device_count
    /\ FittingSizes(vram_per_device, min_vram_gb, next_device) = {}
    /\ Finish("raised", <<>>, "Not enough GPU memory")
    /\ UNCHANGED <<cuda_available, vram_per_device, min_vram_gb, next_device>>
    /\ UNCHANGED groupsFrame

\* Every device is in a group: the groups are returned.
ReturnGroups ==
    /\ groups_pc = "scanning"
    /\ next_device >= device_count
    /\ Finish("returned", gpu_groups, "")
    /\ UNCHANGED <<cuda_available, vram_per_device, min_vram_gb, next_device>>
    /\ UNCHANGED groupsFrame

GroupsNext ==
    \/ CreateGroupsCall
    \/ FormGroup
    \/ RaiseNotEnoughGPUResources
    \/ ReturnGroups

Devices == 0..(device_count - 1)

DevicesOf(group) == {group[k] : k \in 1..Len(group)}

\* The group of the returned list that device d is in.
GroupsWith(d) == {g \in 1..Len(gpu_groups) : d \in DevicesOf(gpu_groups[g])}

Sufficient(d) == vram_per_device[d + 1] >= min_vram_gb

\* C16 (as stated): in a returned list every device whose own VRAM is
\* >= min_vram_gb is a singleton group, and every multi-device group
\* consists of devices below the threshold only.
C16_SufficientDevicesAreSingletons ==
    groups_pc = "returned" =>
        \A g \in 1..Len(gpu_groups) :
            \A d \in DevicesOf(gpu_groups[g]) :
                Sufficient(d) => gpu_groups[g] = <<d>>

\* C16 (amended): in a returned list a group is a singleton exactly when its
\* first device has VRAM >= min_vram_gb on its own; a device with
\* sufficient VRAM is in a multi-device group only behind an earlier device
\* below the threshold that started the group, as devices 5 and 6 of
\* [24,8,8,8,8,12,24,24] with 23, which gives [[0],[1,2,3,4],[5,6],[7]].
C16_GroupStartedBySufficientDeviceIsSingleton ==
    /\ groups_pc = "returned" =>
        \A g \in 1..Len(gpu_groups) :
            LET group == gpu_groups[g]
            IN /\ Len(group) = 1 <=> Sufficient(group[1])
               /\ \A d \in DevicesOf(group) :
                      Sufficient(d) /\ group # <<d>> =>
                          /\ group[1] < d
                          /\ ~Sufficient(group[1])
    /\ (groups_pc = "returned" /\ min_vram_gb = 23
           /\ vram_per_device = <<24, 8, 8, 8, 8, 12, 24, 24>>)
          => gpu_groups = << <<0>>, <<1, 2, 3, 4>>, <<5, 6>>, <<7>> >>

\* A returned list with a singleton group and a device of sufficient VRAM
\* inside a multi-device group.
C16_Witness ==
    /\ groups_pc = "returned"
    /\ \E g \in 1..Len(gpu_groups) : Len(gpu_groups[g]) = 1
    /\ \E g \in 1..Len(gpu_groups) :
           /\ Len(gpu_groups[g]) > 1
           /\ \E d \in DevicesOf(gpu_groups[g]) : Sufficient(d)

Consecutive(group) ==
    \A k \in 1..(Len(group) - 1) : group[k + 1] = group[k] + 1

RECURSIVE LeavesDevicesOver(_, _, _)
LeavesDevicesOver(vram, min, first) ==
    IF first >= Len(vram) THEN FALSE
    ELSE LET sizes == FittingSizes(vram, min, first)
         IN IF sizes = {} THEN TRUE
            ELSE LeavesDevicesOver(vram, min,
                                   first + SmallestFittingSize(sizes))

NonceValues == {1, 2}
DistValues == {1, 9}
RTargetValues == {5}
FraudThresholdValues == {1, 50}

ProofBatch(public_key, nonces, dist) ==
    [public_key |-> public_key, nonces |-> nonces, dist |-> dist]

\* len(nonces) == len(dist)
WellFormed(b) == Len(b.nonces) = Len(b.dist)

ProofBatches ==
    UNION {{ProofBatch("pk", nonces, dist) :
                nonces \in [1..n -> NonceValues], dist \in [1..n -> DistValues]}
           : n \in 0..MaxBatchLen}

\* ProofBatch.empty()
ProofBatchEmpty == ProofBatch("", <<>>, <<>>)

\* ProofBatch.split(n): nonces and distances are cut at the same places.
ProofBatchSplit(b, n) ==
    LET nonces == Split(b.nonces, n)
        dist == Split(b.dist, n)
    IN [c \in 1..Len(nonces) |->
           [b EXCEPT !.nonces = nonces[c], !.dist = dist[c]]]

\* ProofBatch.merge(batches): nonces and distances concatenated in order
\* under the header of the first batch.
ProofBatchMerge(bs) ==
    IF bs = <<>> THEN ProofBatchEmpty
    ELSE ProofBatch(bs[1].public_key,
                    Merge([k \in 1..Len(bs) |-> bs[k].nonces]),
                    Merge([k \in 1..Len(bs) |-> bs[k].dist]))

\* Compute.validate(proof_batch): the distances of the batch's nonces are
\* computed again.
ComputeValidate(b) ==
    [b EXCEPT !.dist = [k \in 1..Len(b.nonces) |-> true_dist[b.nonces[k]]]]

\* InValidation(batch)
NewInValidation(b) == [batch |-> b, processed |-> {}]

\* InValidation.process(fragment): the recomputed distance of every nonce of
\* the fragment that belongs to the batch is recorded.
InValidationProcess(iv, fragment) ==
    [iv EXCEPT !.processed = @ \cup
        {<<fragment.nonces[k], fragment.dist[k]>> :
            k \in {j \in 1..Len(fragment.nonces) :
                      fragment.nonces[j] \in Range(iv.batch.nonces)}}]

RECURSIVE ProcessFragments(_, _)
ProcessFragments(iv, fragments) ==
    IF fragments = <<>> THEN iv
    ELSE ProcessFragments(InValidationProcess(iv, Head(fragments)), Tail(fragments))

\* InValidation.is_ready(): every nonce of the batch has been processed.
InValidationIsReady(iv) ==
    \A nonce \in Range(iv.batch.nonces) :
        \E d \in DistValues : <<nonce, d>> \in iv.processed

\* n_invalid: the entries whose recomputed distance is above r_target.
CountInvalid(dist_validated, target) ==
    Cardinality({k \in 1..Len(dist_validated) : dist_validated[k] > target})

\* fraud_detected: the invalid proportion of the batch exceeds the threshold
\* (threshold in hundredths).
FraudDetected(n_invalid, length, threshold) ==
    n_invalid * 100 > threshold * length

\* InValidation.validated(r_target, fraud_threshold)
InValidationValidated(iv, target, threshold) ==
    LET nonces == iv.batch.nonces
        dist_validated ==
            [k \in 1..Len(nonces) |->
                CHOOSE d \in DistValues : <<nonces[k], d>> \in iv.processed]
        n_invalid == CountInvalid(dist_validated, target)
    IN [nonces |-> nonces,
        dist_generated |-> iv.batch.dist,
        dist_validated |-> dist_validated,
        n_invalid |-> n_invalid,
        fraud_detected |-> FraudDetected(n_invalid, Len(nonces), threshold)]

BatchInit ==
    /\ proof_batch \in ProofBatches
    /\ split_size \in 1..MaxSplit
    /\ r_target \in RTargetValues
    /\ fraud_threshold \in FraudThresholdValues
    /\ true_dist \in [NonceValues -> DistValues]
    /\ batch_pc = "submitted"
    /\ split_batches = <<>>
    /\ to_compute = {}
    /\ merged_batch = <<>>
    /\ validated_fragments = <<>>
    /\ batch_in_validation = NewInValidation(proof_batch)
    /\ validated_batches = <<>>

BatchPark ==
    /\ proof_batch = ProofBatchEmpty
    /\ split_size = 1
    /\ r_target = 5
    /\ fraud_threshold = 1
    /\ true_dist = [nonce \in NonceValues |-> 1]
    /\ batch_pc = "submitted"
    /\ split_batches = <<>>
    /\ to_compute = {}
    /\ merged_batch = <<>>
    /\ validated_fragments = <<>>
    /\ batch_in_validation = NewInValidation(ProofBatchEmpty)
    /\ validated_batches = <<>>

\* Worker._prepare_next_batch: the dequeued batch is split into chunks of
\* batch_size.
SplitSubmittedBatch ==
    /\ batch_pc = "submitted"
    /\ batch_pc' = "split"
    /\ split_batches' = ProofBatchSplit(proof_batch, split_size)
    /\ to_compute' = 1..Len(split_batches')
    /\ UNCHANGED <<proof_batch, split_size, r_target, fraud_threshold,
                   true_dist, merged_batch, validated_fragments, batch_in_validation,
                   validated_batches>>
    /\ UNCHANGED batchFrame

\* Faulty variant: only the first chunk is taken.
GetGeneratedFirstOnly ==
    /\ batch_pc = "split"
    /\ merged_batch = <<>>
    /\ merged_batch' =
          << IF Len(split_batches) = 0 THEN ProofBatchEmpty
             ELSE split_batches[1] >>
    /\ UNCHANGED <<proof_batch, split_size, r_target, fraud_threshold,
                   true_dist, batch_pc, split_batches, to_compute,
                   validated_fragments, batch_in_validation, validated_batches>>
    /\ UNCHANGED batchFrame

\* Sender._get_generated applied to the chunks: they are merged into one
\* batch, an empty list giving ProofBatch.empty().
GetGenerated ==
    /\ batch_pc = "split"
    /\ merged_batch = <<>>
    /\ merged_batch' =
          << IF Len(split_batches) = 0 THEN ProofBatchEmpty
             ELSE ProofBatchMerge(split_batches) >>
    /\ UNCHANGED <<proof_batch, split_size, r_target, fraud_threshold,
                   true_dist, batch_pc, split_batches, to_compute,
                   validated_fragments, batch_in_validation, validated_batches>>
    /\ UNCHANGED batchFrame

\* Faulty variant: the chunk is put on the validated queue as it came.
RecomputeChunkForwardsClaim(c) ==
    /\ batch_pc = "split"
    /\ c \in to_compute
    /\ to_compute' = to_compute \ {c}
    /\ validated_fragments' =
          Append(validated_fragments, split_batches[c])
    /\ UNCHANGED <<proof_batch, split_size, r_target, fraud_threshold,
                   true_dist, batch_pc, split_batches, merged_batch, batch_in_validation,
                   validated_batches>>
    /\ UNCHANGED batchFrame

\* Worker._validate: one chunk is recomputed and put on the validated queue;
\* the Workers of a pool finish their chunks in any order.
RecomputeChunk(c) ==
    /\ batch_pc = "split"
    /\ c \in to_compute
    /\ to_compute' = to_compute \ {c}
    /\ validated_fragments' =
          Append(validated_fragments, ComputeValidate(split_batches[c]))
    /\ UNCHANGED <<proof_batch, split_size, r_target, fraud_threshold,
                   true_dist, batch_pc, split_batches, merged_batch, batch_in_validation,
                   validated_batches>>
    /\ UNCHANGED batchFrame

\* Sender._get_validated: the validated queue is drained into the
\* InValidation, which is materialized once it is ready.
GetValidated ==
    /\ validated_batches = <<>>
    /\ validated_fragments # <<>> \/ InValidationIsReady(batch_in_validation)
    /\ validated_fragments' = <<>>
    /\ batch_in_validation' = ProcessFragments(batch_in_validation, validated_fragments)
    /\ validated_batches' =
          IF InValidationIsReady(batch_in_validation')
            THEN <<InValidationValidated(batch_in_validation', r_target, fraud_threshold)>>
            ELSE <<>>
    /\ UNCHANGED <<proof_batch, split_size, r_target, fraud_threshold,
                   true_dist, batch_pc, split_batches, to_compute,
                   merged_batch>>
    /\ UNCHANGED batchFrame

BatchNext ==
    \/ SplitSubmittedBatch
    \/ GetGenerated
    \/ \E c \in 1..MaxBatchLen : RecomputeChunk(c)
    \/ GetValidated

\* C19: the chunks of split(n) have at most n entries each, the merge of the
\* chunks has the nonces and the distances of the batch in the same order,
\* and the batch, every chunk and the merged batch have as many nonces as
\* distances.
C19_MergeOfSplit ==
    /\ WellFormed(proof_batch)
    /\ \A c \in 1..Len(split_batches) :
          /\ Len(split_batches[c].nonces) <= split_size
          /\ WellFormed(split_batches[c])
    /\ \A k \in 1..Len(merged_batch) :
          /\ merged_batch[k].nonces = proof_batch.nonces
          /\ merged_batch[k].dist = proof_batch.dist
          /\ WellFormed(merged_batch[k])

\* A batch longer than n was split into several chunks, the last one
\* shorter than n, and the chunks were merged.
C19_Witness ==
    /\ Len(proof_batch.nonces) > split_size
    /\ Len(split_batches) > 1
    /\ Len(split_batches[Len(split_batches)].nonces) < split_size
    /\ merged_batch # <<>>

\* The entries of the submitted batch whose recomputed distance is above
\* r_target.
InvalidEntries ==
    {k \in 1..Len(proof_batch.nonces) :
        true_dist[proof_batch.nonces[k]] > r_target}

IssuedBatches == 1..MaxIssued

\* The nonces of the k-th batch the Worker draws from its generator.
IssuedNonces(k) == [j \in 1..GenBatchLen |-> (k - 1) * GenBatchLen + j]

GenerateInit ==
    /\ gen_pc = "run"
    /\ interrupt_flag = FALSE
    /\ exception = FALSE
    /\ issued = 0
    /\ next_nonces = 0
    /\ compute_calls = [k \in IssuedBatches |-> 0]
    /\ abandoned = {}
    /\ futures = [k \in IssuedBatches |-> "none"]
    /\ generated_batch_queue = <<>>
    /\ computed_dist \in [1..(MaxIssued * GenBatchLen) -> DistValues]
    /\ evaluated = {}
    /\ peer_alive = TRUE

GeneratePark ==
    /\ gen_pc = "run"
    /\ interrupt_flag = FALSE
    /\ exception = FALSE
    /\ issued = 0
    /\ next_nonces = 0
    /\ compute_calls = [k \in IssuedBatches |-> 0]
    /\ abandoned = {}
    /\ futures = [k \in IssuedBatches |-> "none"]
    /\ generated_batch_queue = <<>>
    /\ computed_dist = [nonce \in 1..(MaxIssued * GenBatchLen) |-> 1]
    /\ evaluated = {}
    /\ peer_alive = TRUE

\* multiprocessing.Process.is_alive() of the Worker.
process_is_alive == gen_pc # "exited"

\* ParallelController.is_running(): all(controller.process.is_alive()).
pool_is_running == process_is_alive /\ peer_alive

\* Compute.__call__ / _process_batch: the batch of the nonces with the
\* distance computed for each.
ComputedBatch(k) ==
    ProofBatch("pk", IssuedNonces(k),
               [j \in 1..GenBatchLen |-> computed_dist[IssuedNonces(k)[j]]])

\* ProofBatch.sub_batch(r_target): the entries with dist <= r_target, each
\* nonce with its distance.
sub_batch(b, target) ==
    LET keep == {j \in 1..Len(b.nonces) : b.dist[j] <= target}
    IN [b EXCEPT !.nonces = KeepIdx(b.nonces, keep),
                 !.dist = KeepIdx(b.dist, keep)]

\* Faulty variant: the filtered batch is enqueued whatever it holds.
ShouldEnqueueAlways(filtered_batch) == TRUE

\* Worker._process_result: "if filtered_batch.nonces:"
ShouldEnqueue(filtered_batch) == filtered_batch.nonces # <<>>

\* Worker.run: the loop reads the phase and calls _generate, which draws its
\* first next_nonces from the generator before the loop.  A batch drawn past
\* MaxIssued is batch MaxIssued + 1, which is never handed to Compute.
RunEntersGenerate ==
    /\ gen_pc = "run"
    /\ phase = "GENERATE"
    /\ gen_pc' = "generate"
    /\ issued' = IF issued < MaxIssued THEN issued + 1 ELSE issued
    /\ next_nonces' = issued + 1
    /\ UNCHANGED <<interrupt_flag, exception, compute_calls, abandoned, futures,
                   generated_batch_queue, computed_dist, evaluated, peer_alive>>
    /\ UNCHANGED generateFrame

\* Worker._generate, the loop condition: the phase is no longer GENERATE.
GenerateStopped ==
    /\ gen_pc = "generate"
    /\ phase # "GENERATE"
    /\ gen_pc' = "run"
    /\ next_nonces' = 0
    /\ abandoned' = abandoned \cup {next_nonces}
    /\ UNCHANGED <<interrupt_flag, exception, issued, compute_calls, futures,
                   generated_batch_queue, computed_dist, evaluated, peer_alive>>
    /\ UNCHANGED generateFrame

\* Worker._generate: "if self.exception is not None: raise self.exception".
\* Nothing catches it: Worker.run ends and the process exits.
GenerateRaises ==
    /\ gen_pc = "generate"
    /\ phase = "GENERATE"
    /\ exception
    /\ gen_pc' = "exited"
    /\ next_nonces' = 0
    /\ abandoned' = abandoned \cup {next_nonces}
    /\ UNCHANGED <<interrupt_flag, exception, issued, compute_calls, futures,
                   generated_batch_queue, computed_dist, evaluated, peer_alive>>
    /\ UNCHANGED generateFrame

\* Worker._generate: "if self.interrupt_flag: break". _generate returns to
\* the loop of Worker.run.
GenerateBreaks ==
    /\ gen_pc = "generate"
    /\ phase = "GENERATE"
    /\ ~exception
    /\ interrupt_flag
    /\ gen_pc' = "run"
    /\ next_nonces' = 0
    /\ abandoned' = abandoned \cup {next_nonces}
    /\ UNCHANGED <<interrupt_flag, exception, issued, compute_calls, futures,
                   generated_batch_queue, computed_dist, evaluated, peer_alive>>
    /\ UNCHANGED generateFrame

\* Faulty variant: the batch handed to Compute is the one before the
\* prefetched one.
NoncesToSubmitPrevious(prefetched) ==
    IF prefetched > 1 THEN prefetched - 1 ELSE prefetched

\* Worker._generate: "nonces = next_nonces".
NoncesToSubmit(prefetched) == prefetched

\* Worker._generate, one pass of the loop: the prefetched batch becomes the
\* current one, the next nonces are drawn, the current batch is handed to
\* Compute and _process_result becomes the callback of its future.
GenerateIssues ==
    /\ gen_pc = "generate"
    /\ phase = "GENERATE"
    /\ ~exception
    /\ ~interrupt_flag
    /\ issued < MaxIssued
    /\ LET nonces == NoncesToSubmit(next_nonces)
       IN /\ futures' = [futures EXCEPT ![nonces] = "pending"]
          /\ compute_calls' = [compute_calls EXCEPT ![nonces] = @ + 1]
    /\ issued' = issued + 1
    /\ next_nonces' = issued + 1
    /\ UNCHANGED <<gen_pc, interrupt_flag, exception, abandoned, generated_batch_queue,
                   computed_dist, evaluated, peer_alive>>
    /\ UNCHANGED generateFrame

\* A thread of the executor finishes get_batch for batch k and runs
\* _process_result: the batch is filtered and, unless nothing is left,
\* put on the generated queue.
ProcessResult(k) ==
    /\ process_is_alive
    /\ futures[k] = "pending"
    /\ futures' = [futures EXCEPT ![k] = "done"]
    /\ evaluated' = evaluated \cup Range(IssuedNonces(k))
    /\ LET filtered_batch == sub_batch(ComputedBatch(k), r_target)
       IN generated_batch_queue' =
             IF ShouldEnqueue(filtered_batch)
               THEN Append(generated_batch_queue, filtered_batch)
               ELSE generated_batch_queue
    /\ UNCHANGED <<gen_pc, interrupt_flag, exception, issued, next_nonces, compute_calls, abandoned, computed_dist,
                   peer_alive>>
    /\ UNCHANGED generateFrame

\* _process_result, the put fails (BrokenPipeError, EOFError, IOError,
\* TimeoutError): only the interrupt flag is set.
ProcessResultPutFails(k) ==
    /\ process_is_alive
    /\ futures[k] = "pending"
    /\ sub_batch(ComputedBatch(k), r_target).nonces # <<>>
    /\ futures' = [futures EXCEPT ![k] = "done"]
    /\ evaluated' = evaluated \cup Range(IssuedNonces(k))
    /\ interrupt_flag' = TRUE
    /\ UNCHANGED <<gen_pc, exception, issued, next_nonces, compute_calls, abandoned, generated_batch_queue,
                   computed_dist, peer_alive>>
    /\ UNCHANGED generateFrame

\* _process_result, any other exception (future.result() re-raises what
\* get_batch raised): ignored when the phase has left GENERATE, otherwise the
\* flag and the exception are set.
ProcessResultRaises(k) ==
    /\ process_is_alive
    /\ futures[k] = "pending"
    /\ futures' = [futures EXCEPT ![k] = "done"]
    /\ IF phase # "GENERATE"
         THEN UNCHANGED <<interrupt_flag, exception>>
         ELSE interrupt_flag' = TRUE /\ exception' = TRUE
    /\ UNCHANGED <<gen_pc, issued, next_nonces, compute_calls, abandoned, generated_batch_queue, computed_dist,
                   evaluated, peer_alive>>
    /\ UNCHANGED generateFrame

\* The process of another Controller of the pool dies.
PeerDies ==
    /\ peer_alive
    /\ peer_alive' = FALSE
    /\ UNCHANGED <<gen_pc, interrupt_flag, exception, issued, next_nonces, compute_calls, abandoned, futures,
                   generated_batch_queue, computed_dist, evaluated>>
    /\ UNCHANGED generateFrame

WorkerSteps ==
    \/ RunEntersGenerate
    \/ GenerateStopped
    \/ GenerateRaises
    \/ GenerateBreaks
    \/ GenerateIssues

GenerateNext ==
    \/ start_generate
    \/ stop_generate
    \/ WorkerSteps
    \/ \E k \in IssuedBatches : ProcessResult(k)
    \/ \E k \in IssuedBatches : ProcessResultPutFails(k)
    \/ \E k \in IssuedBatches : ProcessResultRaises(k)
    \/ PeerDies

\* C22: once the Worker's error flag is set by a failed callback, its process
\* exits and ParallelController.is_running() becomes false.
\* (While the phase stays GENERATE; checked under SpecGenerateFair.)
C22_FailureEndsProcess ==
    (interrupt_flag /\ phase = "GENERATE")
        ~> ((~process_is_alive /\ ~pool_is_running) \/ phase # "GENERATE")

\* C29: every batch on the generated queue is non-empty, has as many nonces
\* as distances, holds only entries with dist <= r_target, each the distance
\* computed for its nonce; a nonce evaluated to a distance above r_target is
\* in no batch of the queue.
C29_OnlyCandidatesEnqueued ==
    /\ \A q \in 1..Len(generated_batch_queue) :
          LET b == generated_batch_queue[q]
          IN /\ b.nonces # <<>>
             /\ WellFormed(b)
             /\ \A j \in 1..Len(b.nonces) :
                   /\ b.dist[j] <= r_target
                   /\ b.dist[j] = computed_dist[b.nonces[j]]
                   /\ b.nonces[j] \in evaluated
    /\ \A nonce \in evaluated :
          computed_dist[nonce] > r_target =>
             \A q \in 1..Len(generated_batch_queue) :
                nonce \notin Range(generated_batch_queue[q].nonces)

\* One result was enqueued with part of its entries filtered out, and
\* another was evaluated and not enqueued at all.
C29_Witness ==
    /\ \E q \in 1..Len(generated_batch_queue) :
          Len(generated_batch_queue[q].nonces) < GenBatchLen
    /\ \E k \in IssuedBatches :
          /\ futures[k] = "done"
          /\ \A nonce \in Range(IssuedNonces(k)) :
                nonce \in evaluated /\ computed_dist[nonce] > r_target

\* C30: the batches on the generated queue are in the order in which their
\* nonces were issued.
C30_IssueOrder ==
    \A a, b \in 1..Len(generated_batch_queue) :
        a < b => generated_batch_queue[a].nonces[1] < generated_batch_queue[b].nonces[1]

\* C31 (as stated): every batch of nonces drawn from the generator, other
\* than the one _generate holds as next_nonces, has been handed to Compute
\* exactly once.
C31_DrawnSubmittedOnce ==
    \A k \in 1..issued : k # next_nonces => compute_calls[k] = 1

\* C31 (amended): no drawn batch is handed to Compute twice, and the drawn
\* batches never handed to Compute are exactly the one held as next_nonces
\* and those that were next_nonces when a call of _generate ended.
C31_SubmittedAtMostOnce ==
    \A k \in IssuedBatches :
        /\ compute_calls[k] <= 1
        /\ k > issued => compute_calls[k] = 0
        /\ k <= issued =>
              (compute_calls[k] = 0 <=> (k = next_nonces \/ k \in abandoned))

\* A batch was left behind when _generate ended, and after the Worker came
\* back to GENERATE a later batch was handed to Compute.
C31_Witness ==
    \E k \in abandoned : \E j \in IssuedBatches : j > k /\ compute_calls[j] = 1

(***************************************************************************)
(* 12. API: check_service_conflicts and the InferenceManager               *)
(***************************************************************************)
Services == {"POW", "INFERENCE", "TRAIN"}
Runners == 1..MaxRunners

NoCheck == [seen |-> {}, target |-> "none", code |-> 0, stop_calls |-> {}]

ApiInit ==
    /\ service_state = "STOPPED"
    /\ pow_manager = "None"
    /\ train_manager = "None"
    /\ vllm_runner = 0
    /\ vllm_processes = [r \in Runners |-> FALSE]
    /\ runners_made = 0
    /\ startup_task = "None"
    /\ startup_pc = "none"
    /\ thread_runner = 0
    /\ async_stop_pc = "idle"
    /\ async_stop_caller = "none"
    /\ stop_target = 0
    /\ stop_began_starting = FALSE
    /\ stop_returned = FALSE
    /\ last_check = NoCheck

ApiPark ==
    /\ service_state = "STOPPED"
    /\ pow_manager = "None"
    /\ train_manager = "None"
    /\ vllm_runner = 0
    /\ vllm_processes = [r \in Runners |-> FALSE]
    /\ runners_made = 0
    /\ startup_task = "None"
    /\ startup_pc = "none"
    /\ thread_runner = 0
    /\ async_stop_pc = "idle"
    /\ async_stop_caller = "none"
    /\ stop_target = 0
    /\ stop_began_starting = FALSE
    /\ stop_returned = FALSE
    /\ last_check = NoCheck

\* PowManager.is_running(), InferenceManager.is_running() (vllm_runner is not
\* None and vllm_runner.is_running()), TrainManager.is_running().
pow_running == pow_manager = "running"
inference_running == vllm_runner # 0 /\ vllm_processes[vllm_runner]
train_running == train_manager = "running"

\* InferenceManager.is_starting()
is_starting == startup_task = "pending"

\* update_service_state: the managers that report is_running().
running_services ==
    {s \in Services : \/ s = "POW" /\ pow_running
                      \/ s = "INFERENCE" /\ inference_running
                      \/ s = "TRAIN" /\ train_running}

\* update_service_state, the if / elif chain that sets service_state.
CurrentService ==
    IF pow_running THEN "POW"
    ELSE IF inference_running THEN "INFERENCE"
    ELSE IF train_running THEN "TRAIN"
    ELSE "STOPPED"

\* handle_conflicts: the status the dependency lets the request go on with
\* (200) or rejects it with (409).
handle_conflicts(current_service, requested_service) ==
    IF current_service = "STOPPED" \/ requested_service = "MLNODE" THEN 200
    ELSE IF current_service # requested_service THEN 409
    ELSE 200

\* The event loop is free to run another handler: no coroutine is between
\* two of its suspension points.
LoopFree == async_stop_pc \in {"idle", "runner_stop", "await_task"}

\* check_service_conflicts with at most one service running: the state is
\* updated and the request is let through or rejected.
Checked(requested_service) ==
    [seen |-> running_services, target |-> requested_service,
     code |-> handle_conflicts(CurrentService, requested_service),
     stop_calls |-> {}]

Passes(requested_service) ==
    handle_conflicts(CurrentService, requested_service) = 200

\* POST /pow/init behind check_service_conflicts: switch_to_pow.
PowInitRequest ==
    /\ LoopFree
    /\ Cardinality(running_services) <= 1
    /\ service_state' = CurrentService
    /\ last_check' = Checked("POW")
    /\ pow_manager' = IF Passes("POW") THEN "running" ELSE pow_manager
    /\ UNCHANGED <<train_manager, vllm_runner, vllm_processes, runners_made,
                   startup_task, startup_pc, thread_runner, async_stop_pc,
                   async_stop_caller, stop_target, stop_began_starting,
                   stop_returned>>
    /\ UNCHANGED apiFrame

\* POST /pow/stop behind check_service_conflicts.
PowStopRequest ==
    /\ LoopFree
    /\ Cardinality(running_services) <= 1
    /\ service_state' = CurrentService
    /\ last_check' = Checked("POW")
    /\ pow_manager' = IF Passes("POW") THEN "None" ELSE pow_manager
    /\ UNCHANGED <<train_manager, vllm_runner, vllm_processes, runners_made,
                   startup_task, startup_pc, thread_runner, async_stop_pc,
                   async_stop_caller, stop_target, stop_began_starting,
                   stop_returned>>
    /\ UNCHANGED apiFrame

\* POST /train/start behind check_service_conflicts.
TrainStartRequest ==
    /\ LoopFree
    /\ Cardinality(running_services) <= 1
    /\ service_state' = CurrentService
    /\ last_check' = Checked("TRAIN")
    /\ train_manager' = IF Passes("TRAIN") THEN "running" ELSE train_manager
    /\ UNCHANGED <<pow_manager, vllm_runner, vllm_processes, runners_made,
                   startup_task, startup_pc, thread_runner, async_stop_pc,
                   async_stop_caller, stop_target, stop_began_starting,
                   stop_returned>>
    /\ UNCHANGED apiFrame

\* POST /train/stop behind check_service_conflicts.
TrainStopRequest ==
    /\ LoopFree
    /\ Cardinality(running_services) <= 1
    /\ service_state' = CurrentService
    /\ last_check' = Checked("TRAIN")
    /\ train_manager' = IF Passes("TRAIN") THEN "None" ELSE train_manager
    /\ UNCHANGED <<pow_manager, vllm_runner, vllm_processes, runners_made,
                   startup_task, startup_pc, thread_runner, async_stop_pc,
                   async_stop_caller, stop_target, stop_began_starting,
                   stop_returned>>
    /\ UNCHANGED apiFrame

\* InferenceManager.start_async behind the checks of the route: the startup
\* task is created (one executor thread at a time, at most MaxRunners starts).
CanStartAsync ==
    /\ Passes("INFERENCE")
    /\ ~inference_running
    /\ ~is_starting
    /\ startup_pc = "none"
    /\ runners_made < MaxRunners

\* POST /inference/up and /inference/up/async behind check_service_conflicts.
InferenceUpRequest ==
    /\ LoopFree
    /\ Cardinality(running_services) <= 1
    /\ service_state' = CurrentService
    /\ last_check' =
          [Checked("INFERENCE") EXCEPT
              !.code = IF Passes("INFERENCE") /\ (inference_running \/ is_starting)
                         THEN 409 ELSE @]
    /\ IF CanStartAsync
         THEN /\ startup_task' = "pending"
              /\ startup_pc' = "queued"
              /\ stop_returned' = FALSE
         ELSE UNCHANGED <<startup_task, startup_pc, stop_returned>>
    /\ UNCHANGED <<pow_manager, train_manager, vllm_runner, vllm_processes,
                   runners_made, thread_runner, async_stop_pc,
                   async_stop_caller, stop_target, stop_began_starting>>
    /\ UNCHANGED apiFrame

\* InferenceManager._async_stop up to its first suspension: with a runner,
\* vllm_runner.stop is handed to the executor and awaited.
AsyncStopEnter(caller) ==
    /\ async_stop_caller' = caller
    /\ stop_began_starting' = is_starting
    /\ stop_target' = vllm_runner
    /\ async_stop_pc' = IF vllm_runner # 0 THEN "runner_stop" ELSE "cancel"

\* POST /inference/down behind check_service_conflicts.
InferenceDownRequest ==
    /\ LoopFree
    /\ async_stop_pc = "idle"
    /\ Cardinality(running_services) <= 1
    /\ service_state' = CurrentService
    /\ last_check' = Checked("INFERENCE")
    /\ IF Passes("INFERENCE")
         THEN AsyncStopEnter("down")
         ELSE UNCHANGED <<async_stop_pc, async_stop_caller, stop_target,
                          stop_began_starting>>
    /\ UNCHANGED <<pow_manager, train_manager, vllm_runner, vllm_processes,
                   runners_made, startup_task, startup_pc, thread_runner,
                   stop_returned>>
    /\ UNCHANGED apiFrame

\* update_service_state with more than one service running: pow_manager.stop()
\* and then "await inference_manager._async_stop()". PowManager._stop calls
\* self.pow_controller.stop(); with pow_controller None that raises, and
\* IManager.stop re-raises: the request ends with 500 and nothing is stopped.
ConflictDetected(requested_service) ==
    /\ LoopFree
    /\ async_stop_pc = "idle"
    /\ Cardinality(running_services) > 1
    /\ IF pow_manager = "None"
         THEN /\ last_check' = [seen |-> running_services,
                                target |-> requested_service,
                                code |-> 500, stop_calls |-> {"POW"}]
              /\ UNCHANGED <<pow_manager, async_stop_pc, async_stop_caller,
                             stop_target, stop_began_starting>>
         ELSE /\ pow_manager' = "None"
              /\ last_check' = [seen |-> running_services,
                                target |-> requested_service,
                                code |-> 0, stop_calls |-> {"POW", "INFERENCE"}]
              /\ AsyncStopEnter("conflict")
    /\ UNCHANGED <<service_state, train_manager, vllm_runner, vllm_processes,
                   runners_made, startup_task, startup_pc, thread_runner,
                   stop_returned>>
    /\ UNCHANGED apiFrame

\* _async_stop: the executor has run vllm_runner.stop() (the processes of
\* that runner are terminated) and the coroutine resumes.
AsyncStopRunnerStopped ==
    /\ async_stop_pc = "runner_stop"
    /\ vllm_processes' = [vllm_processes EXCEPT ![stop_target] = FALSE]
    /\ async_stop_pc' = "cancel"
    /\ UNCHANGED <<service_state, pow_manager, train_manager, vllm_runner,
                   runners_made, startup_task, startup_pc, thread_runner,
                   async_stop_caller, stop_target, stop_began_starting,
                   stop_returned, last_check>>
    /\ UNCHANGED apiFrame

\* _async_stop: "if self._startup_task and not self._startup_task.done():
\* cancel and await it". A startup whose work the executor has not begun is
\* cancelled with its task; a thread that is already running goes on.
AsyncStopCancel ==
    /\ async_stop_pc = "cancel"
    /\ IF startup_task = "pending"
         THEN /\ startup_task' = "cancelled"
              /\ startup_pc' = IF startup_pc = "queued" THEN "none" ELSE startup_pc
              /\ async_stop_pc' = "await_task"
         ELSE /\ async_stop_pc' = "finish"
              /\ UNCHANGED <<startup_task, startup_pc>>
    /\ UNCHANGED <<service_state, pow_manager, train_manager, vllm_runner,
                   vllm_processes, runners_made, thread_runner, async_stop_caller,
                   stop_target, stop_began_starting, stop_returned, last_check>>
    /\ UNCHANGED apiFrame

\* _async_stop: the cancelled task has ended and the coroutine resumes.
AsyncStopTaskEnded ==
    /\ async_stop_pc = "await_task"
    /\ async_stop_pc' = "finish"
    /\ UNCHANGED <<service_state, pow_manager, train_manager, vllm_runner,
                   vllm_processes, runners_made, startup_task, startup_pc,
                   thread_runner, async_stop_caller, stop_target,
                   stop_began_starting, stop_returned, last_check>>
    /\ UNCHANGED apiFrame

\* _async_stop, the end: vllm_runner = None, _startup_task = None, and the
\* return to the caller. update_service_state goes on with
\* train_manager.stop(), whose _stop raises when process is None, and only
\* after all three stops raises the 409.
AsyncStopFinish ==
    /\ async_stop_pc = "finish"
    /\ vllm_runner' = 0
    /\ startup_task' = "None"
    /\ async_stop_pc' = "idle"
    /\ async_stop_caller' = "none"
    /\ stop_returned' = stop_began_starting
    /\ IF async_stop_caller = "conflict"
         THEN /\ train_manager' = "None"
              /\ last_check' =
                    [last_check EXCEPT
                        !.stop_calls = @ \cup {"TRAIN"},
                        !.code = IF train_manager = "None" THEN 500 ELSE 409]
         ELSE UNCHANGED <<train_manager, last_check>>
    /\ UNCHANGED <<service_state, pow_manager, vllm_processes, runners_made,
                   startup_pc, thread_runner, stop_target, stop_began_starting>>
    /\ UNCHANGED apiFrame

\* The end of _do_startup in the executor thread: the task, unless it was
\* cancelled, is done.
ThreadEnds ==
    /\ startup_pc' = "none"
    /\ startup_task' = IF startup_task = "pending" THEN "done" ELSE startup_task

\* The event loop runs the startup task, which hands _do_startup to the
\* executor, and a thread of the executor begins it.
StartupBegins ==
    /\ LoopFree
    /\ startup_pc = "queued"
    /\ startup_pc' = "init_vllm"
    /\ UNCHANGED <<service_state, pow_manager, train_manager, vllm_runner,
                   vllm_processes, runners_made, startup_task, thread_runner,
                   async_stop_pc, async_stop_caller, stop_target,
                   stop_began_starting, stop_returned, last_check>>
    /\ UNCHANGED apiFrame

\* _do_startup: init_vllm raises when the manager is running, otherwise it
\* constructs the runner and assigns self.vllm_runner.
StartupInitVllm ==
    /\ startup_pc = "init_vllm"
    /\ IF inference_running
         THEN /\ ThreadEnds
              /\ UNCHANGED <<vllm_runner, runners_made>>
         ELSE /\ runners_made' = runners_made + 1
              /\ vllm_runner' = runners_made + 1
              /\ startup_pc' = "start"
              /\ UNCHANGED startup_task
    /\ UNCHANGED <<service_state, pow_manager, train_manager, vllm_processes,
                   thread_runner, async_stop_pc, async_stop_caller,
                   stop_target, stop_began_starting, stop_returned, last_check>>
    /\ UNCHANGED apiFrame

\* _do_startup: _start raises when vllm_runner is None ("Startup stopped
\* gracefully") or when the manager is running; otherwise it calls
\* self.vllm_runner.start().
StartupStart ==
    /\ startup_pc = "start"
    /\ IF vllm_runner = 0 \/ inference_running
         THEN /\ ThreadEnds
              /\ UNCHANGED thread_runner
         ELSE /\ thread_runner' = vllm_runner
              /\ startup_pc' = "runner_start"
              /\ UNCHANGED startup_task
    /\ UNCHANGED <<service_state, pow_manager, train_manager, vllm_runner,
                   vllm_processes, runners_made, async_stop_pc, async_stop_caller,
                   stop_target, stop_began_starting, stop_returned, last_check>>
    /\ UNCHANGED apiFrame

\* VLLMRunner.start: the vLLM processes are spawned.
StartupSpawns ==
    /\ startup_pc = "runner_start"
    /\ vllm_processes' = [vllm_processes EXCEPT ![thread_runner] = TRUE]
    /\ startup_pc' = "wait"
    /\ UNCHANGED <<service_state, pow_manager, train_manager, vllm_runner,
                   runners_made, startup_task, thread_runner, async_stop_pc,
                   async_stop_caller, stop_target, stop_began_starting,
                   stop_returned, last_check>>
    /\ UNCHANGED apiFrame

\* VLLMRunner._wait_for_server returns (the server is available) or raises
\* (the processes are gone), and _do_startup ends.
StartupWaitEnds ==
    /\ startup_pc = "wait"
    /\ ThreadEnds
    /\ UNCHANGED <<service_state, pow_manager, train_manager, vllm_runner,
                   vllm_processes, runners_made, thread_runner, async_stop_pc,
                   async_stop_caller, stop_target, stop_began_starting,
                   stop_returned, last_check>>
    /\ UNCHANGED apiFrame

ApiNext ==
    \/ PowInitRequest
    \/ PowStopRequest
    \/ TrainStartRequest
    \/ TrainStopRequest
    \/ InferenceUpRequest
    \/ InferenceDownRequest
    \/ \E requested_service \in Services : ConflictDetected(requested_service)
    \/ AsyncStopRunnerStopped
    \/ AsyncStopCancel
    \/ AsyncStopTaskEnded
    \/ AsyncStopFinish
    \/ StartupBegins
    \/ StartupInitVllm
    \/ StartupStart
    \/ StartupSpawns
    \/ StartupWaitEnds

\* C23: when more than one manager reports is_running(), all three managers
\* are stopped and the request is rejected with 409; when exactly one is
\* running and the request targets another service, it is rejected with 409
\* and no manager is stopped.
C23_ConflictOutcome ==
    /\ (Cardinality(last_check.seen) > 1 /\ last_check.code # 0) =>
          /\ last_check.code = 409
          /\ last_check.stop_calls = Services
    /\ (Cardinality(last_check.seen) = 1 /\ last_check.target \notin last_check.seen
            /\ last_check.target # "none") =>
          /\ last_check.code = 409
          /\ last_check.stop_calls = {}

\* C24: no two of the three managers report is_running() at once.
C24_OneServiceAtATime == Cardinality(running_services) <= 1

\* C25: after an _async_stop() that was called during a startup has returned,
\* and until a new start is requested, the manager is not running, not
\* starting and has vllm_runner = None.
C25_StoppedStaysStopped ==
    stop_returned =>
        /\ ~inference_running
        /\ ~is_starting
        /\ vllm_runner = 0

(***************************************************************************)
(* 13. ModelManager: add_model, cancel_download, delete_model              *)
(***************************************************************************)
\* ModelManager.MAX_CONCURRENT_DOWNLOADS
MAX_CONCURRENT_DOWNLOADS == 3

ModelIds == 1..MaxModels

NoHolder == [op |-> "none", id |-> 0]
NoAdd == [id |-> 0, raised |-> FALSE, started |-> FALSE, would_break |-> FALSE]

ModelsInit ==
    /\ download_tasks = [id \in ModelIds |-> 0]
    /\ task_objs = <<>>
    /\ cached = {}
    /\ lock_holder = NoHolder
    /\ lock_waiters = <<>>
    /\ last_add = NoAdd

ModelsPark ==
    /\ download_tasks = [id \in ModelIds |-> 0]
    /\ task_objs = <<>>
    /\ cached = {}
    /\ lock_holder = NoHolder
    /\ lock_waiters = <<>>
    /\ last_add = NoAdd

\* DownloadTask objects in status DOWNLOADING: their download is in progress.
Downloading == {o \in 1..Len(task_objs) : task_objs[o].status = "DOWNLOADING"}

\* add_model: "sum(1 for task in self._download_tasks.values()
\*                 if task.status == ModelStatus.DOWNLOADING)".
active_downloads ==
    Cardinality({id \in ModelIds :
                    download_tasks[id] # 0 /\ download_tasks[id] \in Downloading})

\* add_model: "if task_id in self._download_tasks: ... existing.status ==
\* DOWNLOADING".
already_downloading(id) ==
    download_tasks[id] # 0 /\ download_tasks[id] \in Downloading

\* asyncio.Lock.acquire returns at once only when the lock is not held and
\* no coroutine is waiting for it.
lock_is_available == lock_holder.op = "none" /\ lock_waiters = <<>>

\* The body of add_model under the lock (it has no await).
AddModelBody(id) ==
    LET would_break == \/ Cardinality(Downloading) >= MAX_CONCURRENT_DOWNLOADS
                       \/ \E o \in Downloading : task_objs[o].id = id
        raises == already_downloading(id)
                     \/ active_downloads >= MAX_CONCURRENT_DOWNLOADS
        status == IF id \in cached THEN "DOWNLOADED" ELSE "DOWNLOADING"
    IN /\ last_add' = [id |-> id, raised |-> raises,
                       started |-> ~raises /\ id \notin cached,
                       would_break |-> would_break]
       /\ IF raises
            THEN UNCHANGED <<task_objs, download_tasks>>
            ELSE /\ task_objs' = Append(task_objs, [id |-> id, status |-> status])
                 /\ download_tasks' =
                       [download_tasks EXCEPT ![id] = Len(task_objs) + 1]
       /\ UNCHANGED <<cached, lock_holder>>

\* The body of cancel_download under the lock: ValueError when there is no
\* task or it is not downloading; otherwise task.cancel() and "await
\* task.task" with the lock held.
CancelDownloadBody(id, op) ==
    /\ lock_holder' = IF already_downloading(id)
                        THEN [op |-> op, id |-> id] ELSE NoHolder
    /\ UNCHANGED <<task_objs, download_tasks, cached, last_add>>

\* delete_model without a download in progress: the revisions found in the
\* cache (complete or partial) are deleted and the entry of the identifier
\* is removed ("if task_id in self._download_tasks: del").
DeleteModelTail(id) ==
    /\ cached' = cached \ {id}
    /\ download_tasks' = [download_tasks EXCEPT ![id] = 0]
    /\ UNCHANGED <<task_objs, lock_holder, last_add>>

\* delete_model, "async with self._lock: del self._download_tasks[task_id]"
\* and the rest of the call.
DeleteModelDel(id) ==
    /\ cached' = cached \ {id}
    /\ download_tasks' = [download_tasks EXCEPT ![id] = 0]
    /\ UNCHANGED <<task_objs, lock_holder, last_add>>

\* Room for one more DownloadTask object, counting the add_model calls that
\* wait for the lock.
RoomForTask ==
    Len(task_objs) + Cardinality({w \in 1..Len(lock_waiters) :
                                     lock_waiters[w].op = "add"}) < MaxTaskObjs

\* The identifiers the manager has met: those with an entry or in the cache,
\* and those of the add_model calls that wait for the lock.
Known ==
    {id \in ModelIds : download_tasks[id] # 0 \/ id \in cached}
        \cup {lock_waiters[w].id : w \in 1..Len(lock_waiters)}

\* Identifiers are interchangeable: a call names a known identifier or the
\* smallest one not met so far.
Callable == {id \in ModelIds : \A other \in ModelIds : other < id => other \in Known}

\* A call of add_model(model).
AddModelCall(id) ==
    /\ id \in Callable
    /\ RoomForTask
    /\ IF lock_is_available
         THEN AddModelBody(id) /\ UNCHANGED lock_waiters
         ELSE /\ Len(lock_waiters) < MaxWaiters
              /\ lock_waiters' = Append(lock_waiters, [op |-> "add", id |-> id])
              /\ UNCHANGED <<task_objs, download_tasks, cached, lock_holder, last_add>>
    /\ UNCHANGED modelsFrame

\* A call of cancel_download(model).
CancelDownloadCall(id) ==
    /\ id \in Known
    /\ IF lock_is_available
         THEN CancelDownloadBody(id, "cancel") /\ UNCHANGED lock_waiters
         ELSE /\ Len(lock_waiters) < MaxWaiters
              /\ lock_waiters' = Append(lock_waiters, [op |-> "cancel", id |-> id])
              /\ UNCHANGED <<task_objs, download_tasks, cached, lock_holder, last_add>>
    /\ UNCHANGED modelsFrame

\* A call of delete_model(model): with a download in progress it awaits
\* cancel_download first; otherwise it runs to its end without an await.
DeleteModelCall(id) ==
    /\ id \in Known
    /\ IF already_downloading(id)
         THEN IF lock_is_available
                THEN CancelDownloadBody(id, "delete_cancel") /\ UNCHANGED lock_waiters
                ELSE /\ Len(lock_waiters) < MaxWaiters
                     /\ lock_waiters' =
                           Append(lock_waiters, [op |-> "delete_cancel", id |-> id])
                     /\ UNCHANGED <<task_objs, download_tasks, cached,
                                    lock_holder, last_add>>
         ELSE DeleteModelTail(id) /\ UNCHANGED lock_waiters
    /\ UNCHANGED modelsFrame

\* The lock is released and the coroutine that waited longest gets it.
GrantLock ==
    /\ lock_holder.op = "none"
    /\ lock_waiters # <<>>
    /\ lock_waiters' = Tail(lock_waiters)
    /\ LET h == Head(lock_waiters)
       IN CASE h.op = "add" -> AddModelBody(h.id)
            [] h.op \in {"cancel", "delete_cancel"} -> CancelDownloadBody(h.id, h.op)
            [] h.op = "delete_del" -> DeleteModelDel(h.id)
    /\ UNCHANGED modelsFrame

\* _download_model of the cancelled task handles CancelledError (status
\* PARTIAL), cancel_download returns and releases the lock. delete_model then
\* asks for the lock again to delete the entry: it gets it at once when
\* nobody waits, otherwise it queues behind the waiting coroutines.
CancelledTaskEnds ==
    /\ lock_holder.op \in {"cancel", "delete_cancel"}
    /\ task_objs' = [task_objs EXCEPT ![download_tasks[lock_holder.id]].status = "PARTIAL"]
    /\ lock_holder' = NoHolder
    /\ IF lock_holder.op = "delete_cancel"
         THEN IF lock_waiters = <<>>
                THEN /\ cached' = cached \ {lock_holder.id}
                     /\ download_tasks' = [download_tasks EXCEPT ![lock_holder.id] = 0]
                     /\ UNCHANGED lock_waiters
                ELSE /\ lock_waiters' =
                           Append(lock_waiters, [op |-> "delete_del", id |-> lock_holder.id])
                     /\ UNCHANGED <<cached, download_tasks>>
         ELSE UNCHANGED <<cached, download_tasks, lock_waiters>>
    /\ UNCHANGED last_add
    /\ UNCHANGED modelsFrame

\* _download_model ends by itself: the model is complete (DOWNLOADED) or the
\* retries are used up (PARTIAL). A task that is being cancelled does not
\* get here.
DownloadCompletes(o, ok) ==
    /\ o \in Downloading
    /\ ~(lock_holder.op # "none" /\ download_tasks[lock_holder.id] = o)
    /\ task_objs' = [task_objs EXCEPT ![o].status = IF ok THEN "DOWNLOADED" ELSE "PARTIAL"]
    /\ cached' = IF ok THEN cached \cup {task_objs[o].id} ELSE cached
    /\ UNCHANGED <<download_tasks, lock_holder, lock_waiters, last_add>>
    /\ UNCHANGED modelsFrame

ModelsNext ==
    \/ \E id \in ModelIds : AddModelCall(id)
    \/ \E id \in ModelIds : CancelDownloadCall(id)
    \/ \E id \in ModelIds : DeleteModelCall(id)
    \/ GrantLock
    \/ CancelledTaskEnds
    \/ \E o \in 1..MaxTaskObjs, ok \in BOOLEAN : DownloadCompletes(o, ok)

\* C26: at most MAX_CONCURRENT_DOWNLOADS downloads are in progress, no
\* identifier has two downloads in progress, and an add_model that would
\* break either rule raises ValueError and starts nothing.
C26_DownloadLimits ==
    /\ Cardinality(Downloading) <= MAX_CONCURRENT_DOWNLOADS
    /\ \A o1, o2 \in Downloading : task_objs[o1].id = task_objs[o2].id => o1 = o2
    /\ last_add.would_break => last_add.raised /\ ~last_add.started

(***************************************************************************)
(* 14. One big node serving several small nodes                            *)
(***************************************************************************)
\* node_id of the small nodes of the network; node_count = MaxNodes.
SmallNodes == 0..(MaxNodes - 1)

NodesInit ==
    /\ node_sessions = <<>>
    /\ client_session = [n \in SmallNodes |-> 0]
    /\ start_refused = FALSE

NodesPark ==
    /\ node_sessions = <<>>
    /\ client_session = [n \in SmallNodes |-> 0]
    /\ start_refused = FALSE

\* The sessions of the big node in status INITIALIZING or GENERATING.
NodeActive == {s \in 1..Len(node_sessions) : node_sessions[s].status \in Active}

\* The nonces the Worker of session s has drawn: its ParallelController is
\* built with the node_id and node_count of the request (one GPU group).
SessionNonces(s) ==
    {NonceIteratorNext(
         ControllerIterator(node_sessions[s].node_id, MaxNodes, 0, 1), k) :
       k \in 0..(node_sessions[s].drawn - 1)}

\* DelegationClient.start of small node n: POST /delegation/start with the
\* node's delegation_request; DelegationManager.create_session checks the
\* number of active sessions and nothing else.
NodeClientStart(n) ==
    /\ client_session[n] = 0
    /\ Len(node_sessions) < MaxNodeSessions
    /\ IF Cardinality(NodeActive) >= session_limit
         THEN /\ start_refused' = TRUE
              /\ UNCHANGED <<node_sessions, client_session>>
         ELSE /\ node_sessions' = Append(node_sessions,
                    [node_id |-> n, status |-> "GENERATING", drawn |-> 0])
              /\ client_session' = [client_session EXCEPT ![n] = Len(node_sessions) + 1]
              /\ start_refused' = FALSE
    /\ UNCHANGED nodesFrame

\* The process of small node n restarts: its new DelegationClient has
\* session_id None; the big node is told nothing.
NodeClientRestarts(n) ==
    /\ client_session[n] # 0
    /\ client_session' = [client_session EXCEPT ![n] = 0]
    /\ UNCHANGED <<node_sessions, start_refused>>
    /\ UNCHANGED nodesFrame

\* DelegationClient.stop of small node n: POST /delegation/stop with its
\* session_id, DelegationSession.stop on the big node.
NodeClientStop(n) ==
    /\ client_session[n] # 0
    /\ node_sessions' = [node_sessions EXCEPT ![client_session[n]].status = "STOPPED"]
    /\ client_session' = [client_session EXCEPT ![n] = 0]
    /\ UNCHANGED start_refused
    /\ UNCHANGED nodesFrame

\* The Worker of session s draws its next nonce and evaluates it.
NodeSessionDraws(s) ==
    /\ s \in NodeActive
    /\ node_sessions[s].drawn < MaxK
    /\ node_sessions' = [node_sessions EXCEPT ![s].drawn = @ + 1]
    /\ UNCHANGED <<client_session, start_refused>>
    /\ UNCHANGED nodesFrame

\* The big node ends session s on its own (timeout): DelegationSession.stop.
NodeSessionExpires(s) ==
    /\ s \in NodeActive
    /\ node_sessions' = [node_sessions EXCEPT ![s].status = "STOPPED"]
    /\ UNCHANGED <<client_session, start_refused>>
    /\ UNCHANGED nodesFrame

NodesNext ==
    \/ \E n \in SmallNodes : NodeClientStart(n)
    \/ \E n \in SmallNodes : NodeClientRestarts(n)
    \/ \E n \in SmallNodes : NodeClientStop(n)
    \/ \E s \in 1..MaxNodeSessions : NodeSessionDraws(s)
    \/ \E s \in 1..MaxNodeSessions : NodeSessionExpires(s)

\* C33: two sessions that are active at the same time work for different
\* small nodes, and no nonce has been generated by both of them.
C33_OneSessionPerNode ==
    \A s1, s2 \in NodeActive :
        s1 # s2 =>
            /\ node_sessions[s1].node_id # node_sessions[s2].node_id
            /\ SessionNonces(s1) \cap SessionNonces(s2) = {}

(***************************************************************************)
(* 15. IManager and watch_managers                                         *)
(***************************************************************************)
\* watcher.MAX_UNHEALTHY_COUNT
MAX_UNHEALTHY_COUNT == 3

WatchedManagers == 1..NumManagers

\* IManager.__init__. resource: what the subclass's _stop and _is_healthy
\* look at ("None": no controller or process object; "held": there is one);
\* alive: the processes of that object are alive.
NewManager ==
    [is_active |-> FALSE, has_exception |-> FALSE, state |-> "STOPPED",
     resource |-> "None", alive |-> FALSE]

WatcherInit ==
    /\ managers = [m \in WatchedManagers |-> NewManager]
    /\ unhealthy_counts = [m \in WatchedManagers |-> 0]
    /\ watcher_pc = "sleeping"
    /\ health_log = [m \in WatchedManagers |-> <<>>]
    /\ cycle = [m \in WatchedManagers |-> "none"]

WatcherPark ==
    /\ managers = [m \in WatchedManagers |-> NewManager]
    /\ unhealthy_counts = [m \in WatchedManagers |-> 0]
    /\ watcher_pc = "sleeping"
    /\ health_log = [m \in WatchedManagers |-> <<>>]
    /\ cycle = [m \in WatchedManagers |-> "none"]

\* PowManager._is_healthy / TrainManager._is_healthy: there is a controller
\* (process) and it is alive.
inner_is_healthy(manager) == manager.resource = "held" /\ manager.alive

\* Faulty variant of IManager.is_healthy: the stored exception is not looked at.
is_healthy_ignores_exception(manager) ==
    IF ~manager.is_active THEN TRUE ELSE inner_is_healthy(manager)

\* IManager.is_healthy
is_healthy(manager) ==
    IF manager.has_exception THEN FALSE
    ELSE IF ~manager.is_active THEN TRUE
    ELSE inner_is_healthy(manager)

\* IManager.stop(): _is_active = False, then _stop(), which raises when
\* there is nothing to stop (PowManager: pow_controller is None;
\* TrainManager: process is None); the exception is stored and raised again.
stopped_manager(manager) ==
    IF manager.resource = "None"
      THEN [manager EXCEPT !.is_active = FALSE, !.has_exception = TRUE,
                           !.state = "FAILED"]
      ELSE [manager EXCEPT !.is_active = FALSE, !.state = "STOPPED",
                           !.resource = "None", !.alive = FALSE]

stop_raises(manager) == manager.resource = "None"

\* A route calls manager.start(): _start() succeeds, or it raises and the
\* exception is stored; left: whether the failed _start left a controller
\* (process) object behind.
ManagerStart(m, ok, left) ==
    /\ watcher_pc # "exited"
    /\ ~managers[m].is_active
    /\ ok => left = "held"
    /\ managers' = [managers EXCEPT ![m] =
          IF ok THEN [@ EXCEPT !.is_active = TRUE, !.state = "RUNNING",
                               !.resource = "held", !.alive = TRUE]
                ELSE [@ EXCEPT !.has_exception = TRUE, !.state = "FAILED",
                               !.resource = left, !.alive = FALSE]]
    /\ cycle' = [cycle EXCEPT ![m] =
          IF ~ok THEN "failed"
          ELSE IF @ = "stopped" THEN "restarted" ELSE @]
    /\ UNCHANGED <<unhealthy_counts, watcher_pc, health_log>>
    /\ UNCHANGED watcherFrame

\* A route calls manager.stop().
ManagerStop(m) ==
    /\ watcher_pc # "exited"
    /\ managers' = [managers EXCEPT ![m] = stopped_manager(@)]
    /\ cycle' = [cycle EXCEPT ![m] =
          IF stop_raises(managers[m]) THEN "failed"
          ELSE IF @ = "failed" THEN "stopped" ELSE @]
    /\ UNCHANGED <<unhealthy_counts, watcher_pc, health_log>>
    /\ UNCHANGED watcherFrame

\* The processes of a running manager die.
ManagerProcessDies(m) ==
    /\ watcher_pc # "exited"
    /\ managers[m].alive
    /\ managers' = [managers EXCEPT ![m].alive = FALSE]
    /\ UNCHANGED <<unhealthy_counts, watcher_pc, health_log, cycle>>
    /\ UNCHANGED watcherFrame

\* watch_managers, the for loop from manager m on: the counters and the log
\* after the pass, and the manager (hit) whose counter reached
\* MAX_UNHEALTHY_COUNT, at which the loop stops (0: none).
RECURSIVE WatchFrom(_, _, _)
WatchFrom(m, counts, log) ==
    IF m > NumManagers THEN [counts |-> counts, log |-> log, hit |-> 0]
    ELSE IF ~is_healthy(managers[m])
           THEN LET counted == [counts EXCEPT ![m] = @ + 1]
                    logged == [log EXCEPT ![m] = Append(@, FALSE)]
                IN IF counted[m] >= MAX_UNHEALTHY_COUNT
                     THEN [counts |-> counted, log |-> logged, hit |-> m]
                     ELSE WatchFrom(m + 1, counted, logged)
           ELSE WatchFrom(m + 1, [counts EXCEPT ![m] = 0],
                          [log EXCEPT ![m] = Append(@, TRUE)])

\* watch_managers, one pass after the sleep. At a manager that reached the
\* limit: manager.stop(), then os._exit(1); an exception of stop() leaves
\* the coroutine before the exit.
WatcherPass ==
    /\ watcher_pc = "sleeping"
    /\ \A m \in WatchedManagers : Len(health_log[m]) < MaxChecks
    /\ LET pass == WatchFrom(1, unhealthy_counts, health_log)
       IN /\ unhealthy_counts' = pass.counts
          /\ health_log' = pass.log
          /\ IF pass.hit = 0
               THEN UNCHANGED <<managers, watcher_pc, cycle>>
               ELSE /\ managers' = [managers EXCEPT ![pass.hit] = stopped_manager(@)]
                    /\ watcher_pc' = IF stop_raises(managers[pass.hit])
                                       THEN "crashed" ELSE "exited"
                    /\ UNCHANGED cycle
    /\ UNCHANGED watcherFrame

WatcherNext ==
    \/ \E m \in WatchedManagers : \E ok \in BOOLEAN :
          \E left \in {"None", "held"} : ManagerStart(m, ok, left)
    \/ \E m \in WatchedManagers : ManagerStop(m)
    \/ \E m \in WatchedManagers : ManagerProcessDies(m)
    \/ WatcherPass

\* The number of unhealthy checks in a row at the end of the log of m.
UnhealthyInARow(m) ==
    LET U[k \in 0..Len(health_log[m])] ==
            IF k = 0 THEN 0
            ELSE IF health_log[m][k] THEN 0 ELSE U[k - 1] + 1
    IN U[Len(health_log[m])]

\* C37: the watcher has stopped a manager and exited the process exactly
\* when some manager was unhealthy on MAX_UNHEALTHY_COUNT checks in a row;
\* its counter is the number of unhealthy checks in a row.
C37_ExitAfterThreeInARow ==
    /\ \A m \in WatchedManagers : unhealthy_counts[m] = UnhealthyInARow(m)
    /\ watcher_pc = "exited" <=>
          \E m \in WatchedManagers : UnhealthyInARow(m) >= MAX_UNHEALTHY_COUNT

\* C37 (without the exit): the counter of a manager is the number of its
\* unhealthy checks in a row, and the watcher has called manager.stop() and
\* left its loop exactly when that number reached MAX_UNHEALTHY_COUNT.
C37_StopAfterThreeInARow ==
    /\ \A m \in WatchedManagers : unhealthy_counts[m] = UnhealthyInARow(m)
    /\ watcher_pc # "sleeping" <=>
          \E m \in WatchedManagers : UnhealthyInARow(m) >= MAX_UNHEALTHY_COUNT

\* C38: after a start() or stop() that raised, once a stop() and then a
\* start() have succeeded, is_healthy() is _is_healthy() again.
C38_FailureIsForgotten ==
    \A m \in WatchedManagers :
        (cycle[m] = "restarted" /\ managers[m].is_active) =>
            is_healthy(managers[m]) = inner_is_healthy(managers[m])

(***************************************************************************)
(* 16. The vLLM proxy: backend counts and stream tasks at shutdown         *)
(***************************************************************************)
BackendPorts == 1..NumPorts
ProxyRequests == 1..MaxProxyRequests
AsyncStops == 1..MaxShutdowns

\* A request that has not arrived: no port picked (0), nothing released.
NewRequest ==
    [pc |-> "new", port |-> 0, cancel |-> FALSE, ending |-> "none", releases |-> 0]

ProxyInit ==
    /\ vllm_counts = [p \in BackendPorts |-> 0]
    /\ vllm_healthy = [p \in BackendPorts |-> FALSE]
    /\ shutdown_event = FALSE
    /\ active_proxy_tasks = {}
    /\ proxied = [r \in ProxyRequests |-> NewRequest]
    /\ async_stops = [s \in AsyncStops |-> [pc |-> "idle", tasks |-> {}]]
    /\ backends_up = FALSE
    /\ setups = 0

ProxyPark ==
    /\ vllm_counts = [p \in BackendPorts |-> 0]
    /\ vllm_healthy = [p \in BackendPorts |-> FALSE]
    /\ shutdown_event = FALSE
    /\ active_proxy_tasks = {}
    /\ proxied = [r \in ProxyRequests |-> NewRequest]
    /\ async_stops = [s \in AsyncStops |-> [pc |-> "idle", tasks |-> {}]]
    /\ backends_up = FALSE
    /\ setups = 0

\* _pick_vllm_backend: min(live, key=count), the first of the least loaded
\* live ports in the order of the dict.
live_ports == {p \in BackendPorts : vllm_healthy[p]}

picked_port ==
    CHOOSE p \in live_ports :
        \A q \in live_ports :
            vllm_counts[p] < vllm_counts[q] \/ (vllm_counts[p] = vllm_counts[q] /\ p <= q)

\* _release_vllm_backend
released(counts, port) == [counts EXCEPT ![port] = @ - 1]

\* stream_with_tracking, the registration: whether the task gets into
\* active_proxy_tasks. A registration that never looks at the event.
registers_always(event) == TRUE

registers(event) == ~event

\* VLLMRunner.start: the vLLM processes are spawned and setup_vllm_proxy
\* resets the counts and marks every port unhealthy.
SetupVllmProxy ==
    /\ ~backends_up
    /\ setups < MaxSetups
    /\ vllm_counts' = [p \in BackendPorts |-> 0]
    /\ vllm_healthy' = [p \in BackendPorts |-> FALSE]
    /\ backends_up' = TRUE
    /\ setups' = setups + 1
    /\ UNCHANGED <<shutdown_event, active_proxy_tasks, proxied, async_stops>>
    /\ UNCHANGED proxyFrame

\* _health_check_vllm, one port: a backend answers 200 only when it runs.
HealthCheck(p, ok) ==
    /\ ok => backends_up
    /\ vllm_healthy[p] # ok
    /\ vllm_healthy' = [vllm_healthy EXCEPT ![p] = ok]
    /\ UNCHANGED <<vllm_counts, shutdown_event, active_proxy_tasks, proxied,
                   async_stops, backends_up, setups>>
    /\ UNCHANGED proxyFrame

\* _proxy_request_to_backend up to the await of the upstream connection:
\* 503 without a healthy backend or during shutdown, else a port is picked
\* and counted.
ProxyRequestArrives(r) ==
    /\ proxied[r].pc = "new"
    /\ IF live_ports = {}
         THEN /\ proxied' = [proxied EXCEPT ![r].pc = "ended", ![r].ending = "no_backend"]
              /\ UNCHANGED vllm_counts
         ELSE IF shutdown_event
         THEN /\ proxied' = [proxied EXCEPT ![r].pc = "ended", ![r].ending = "shutting_down"]
              /\ UNCHANGED vllm_counts
         ELSE /\ vllm_counts' = [vllm_counts EXCEPT ![picked_port] = @ + 1]
              /\ proxied' = [proxied EXCEPT ![r].pc = "connecting", ![r].port = picked_port]
    /\ UNCHANGED <<vllm_healthy, shutdown_event, active_proxy_tasks, async_stops,
                   backends_up, setups>>
    /\ UNCHANGED proxyFrame

\* context_manager.__aenter__() raises: the port is released, 502.
ConnectFails(r) ==
    /\ proxied[r].pc = "connecting"
    /\ vllm_counts' = released(vllm_counts, proxied[r].port)
    /\ proxied' = [proxied EXCEPT ![r].pc = "ended", ![r].ending = "connect_failed",
                                  ![r].releases = @ + 1]
    /\ UNCHANGED <<vllm_healthy, shutdown_event, active_proxy_tasks, async_stops,
                   backends_up, setups>>
    /\ UNCHANGED proxyFrame

\* The upstream answered: the StreamingResponse is returned; its generator
\* has not run yet.
ConnectSucceeds(r) ==
    /\ proxied[r].pc = "connecting"
    /\ backends_up
    /\ proxied' = [proxied EXCEPT ![r].pc = "response"]
    /\ UNCHANGED <<vllm_counts, vllm_healthy, shutdown_event, active_proxy_tasks,
                   async_stops, backends_up, setups>>
    /\ UNCHANGED proxyFrame

\* stream_with_tracking, first step: under tasks_lock the task is added,
\* or CancelledError is raised when the event is set. The raise is before
\* the try block, so its finally clause does not run.
StreamRegisters(r) ==
    /\ proxied[r].pc = "response"
    /\ IF registers(shutdown_event)
         THEN /\ active_proxy_tasks' = active_proxy_tasks \cup {r}
              /\ proxied' = [proxied EXCEPT ![r].pc = "streaming"]
         ELSE /\ proxied' = [proxied EXCEPT ![r].pc = "ended", ![r].ending = "refused"]
              /\ UNCHANGED active_proxy_tasks
    /\ UNCHANGED <<vllm_counts, vllm_healthy, shutdown_event, async_stops,
                   backends_up, setups>>
    /\ UNCHANGED proxyFrame

\* The stream leaves the try block: the upstream is exhausted
\* ("end_of_stream"), it raised ("stream_error"), or the task was cancelled
\* (by the client's disconnect, or by a shutdown that asked for it). The
\* finally clause discards the task and awaits the upstream's __aexit__.
StreamLeaves(r, how) ==
    /\ proxied[r].pc = "streaming"
    /\ proxied[r].cancel => how = "cancelled"
    /\ active_proxy_tasks' = active_proxy_tasks \ {r}
    /\ proxied' = [proxied EXCEPT ![r].pc = "closing", ![r].ending = how]
    /\ UNCHANGED <<vllm_counts, vllm_healthy, shutdown_event, async_stops,
                   backends_up, setups>>
    /\ UNCHANGED proxyFrame

\* The finally clause after __aexit__: the port is released, the task ends.
StreamReleases(r) ==
    /\ proxied[r].pc = "closing"
    /\ vllm_counts' = released(vllm_counts, proxied[r].port)
    /\ proxied' = [proxied EXCEPT ![r].pc = "ended", ![r].releases = @ + 1]
    /\ UNCHANGED <<vllm_healthy, shutdown_event, active_proxy_tasks, async_stops,
                   backends_up, setups>>
    /\ UNCHANGED proxyFrame

\* _async_stop up to its first await: the event is set, the registered
\* tasks are copied and the set cleared under tasks_lock (which no task
\* holds across an await), and every copied task is asked to cancel.
AsyncStopBegins(s) ==
    /\ async_stops[s].pc = "idle"
    /\ shutdown_event' = TRUE
    /\ async_stops' = [async_stops EXCEPT ![s] =
          [pc |-> IF active_proxy_tasks = {} THEN "terminate" ELSE "gather",
           tasks |-> active_proxy_tasks]]
    /\ active_proxy_tasks' = {}
    /\ proxied' = [r \in ProxyRequests |->
          IF r \in active_proxy_tasks THEN [proxied[r] EXCEPT !.cancel = TRUE]
          ELSE proxied[r]]
    /\ UNCHANGED <<vllm_counts, vllm_healthy, backends_up, setups>>
    /\ UNCHANGED proxyFrame

\* asyncio.gather returns: every cancelled task has ended
\* (timed_out: asyncio.timeout fired first).
AsyncStopGathered(s, timed_out) ==
    /\ async_stops[s].pc = "gather"
    /\ ~timed_out => \A r \in async_stops[s].tasks : proxied[r].pc = "ended"
    /\ timed_out => \E r \in async_stops[s].tasks : proxied[r].pc # "ended"
    /\ async_stops' = [async_stops EXCEPT ![s].pc = "terminate"]
    /\ UNCHANGED <<vllm_counts, vllm_healthy, shutdown_event, active_proxy_tasks,
                   proxied, backends_up, setups>>
    /\ UNCHANGED proxyFrame

\* The finally clause of _async_stop: vllm_runner.stop() has run in the
\* executor, the event is cleared, "Shutdown complete".
AsyncStopCompletes(s) ==
    /\ async_stops[s].pc = "terminate"
    /\ backends_up' = FALSE
    /\ shutdown_event' = FALSE
    /\ async_stops' = [async_stops EXCEPT ![s].pc = "done"]
    /\ UNCHANGED <<vllm_counts, vllm_healthy, active_proxy_tasks, proxied, setups>>
    /\ UNCHANGED proxyFrame

ProxyNext ==
    \/ SetupVllmProxy
    \/ \E p \in BackendPorts : \E ok \in BOOLEAN : HealthCheck(p, ok)
    \/ \E r \in ProxyRequests : ProxyRequestArrives(r)
    \/ \E r \in ProxyRequests : ConnectFails(r)
    \/ \E r \in ProxyRequests : ConnectSucceeds(r)
    \/ \E r \in ProxyRequests : StreamRegisters(r)
    \/ \E r \in ProxyRequests :
          \E how \in {"end_of_stream", "stream_error", "cancelled"} : StreamLeaves(r, how)
    \/ \E r \in ProxyRequests : StreamReleases(r)
    \/ \E s \in AsyncStops : AsyncStopBegins(s)
    \/ \E s \in AsyncStops : \E timed_out \in BOOLEAN : AsyncStopGathered(s, timed_out)
    \/ \E s \in AsyncStops : AsyncStopCompletes(s)

\* The requests that picked port p and have not ended.
InFlight(p) == {r \in ProxyRequests : proxied[r].port = p /\ proxied[r].pc # "ended"}

\* The stream tasks some _async_stop has copied.
Snapshotted == UNION {async_stops[s].tasks : s \in AsyncStops}

\* C39: while shutdown_event is set no stream task is added to
\* active_proxy_tasks; every task an _async_stop copied was asked to
\* cancel and none is left in the set while the event is set; and the set
\* is empty at the step at which an _async_stop completes.
C39_ShutdownCancelsEveryStream ==
    /\ [][shutdown_event => active_proxy_tasks' \subseteq active_proxy_tasks]_vars
    /\ [](\A r \in Snapshotted : proxied[r].cancel)
    /\ [](shutdown_event => active_proxy_tasks = {})
    /\ [][\A s \in AsyncStops :
             (async_stops[s].pc = "terminate" /\ async_stops'[s].pc = "done")
                 => active_proxy_tasks' = {}]_vars

\* The part of C39 about one shutdown: from the step that sets the event to
\* the step that clears it the set stays empty, and every copied task was
\* asked to cancel.
C39_EmptyWhileEventSet ==
    /\ shutdown_event => active_proxy_tasks = {}
    /\ \A r \in Snapshotted : proxied[r].cancel

\* C40: vllm_counts[p] is the number of requests in flight on p and is
\* never negative, and a request that picked a port and has ended released
\* it exactly once.
C40_CountsAreInFlight ==
    /\ \A p \in BackendPorts :
          vllm_counts[p] >= 0 /\ vllm_counts[p] = Cardinality(InFlight(p))
    /\ \A r \in ProxyRequests :
          (proxied[r].pc = "ended" /\ proxied[r].port # 0) => proxied[r].releases = 1

\* The part of C40 that does not pass through a refused registration or a
\* second setup_vllm_proxy: an ended request released at most once, and
\* exactly once unless its registration was refused.
C40_ReleasedUnlessRefused ==
    \A r \in ProxyRequests :
        (proxied[r].pc = "ended" /\ proxied[r].port # 0) =>
            proxied[r].releases = (IF proxied[r].ending = "refused" THEN 0 ELSE 1)

(***************************************************************************)
(* Specifications                                                          *)
(***************************************************************************)
InitNonce == NonceInit /\ WorkerPark /\ SenderPark /\ DelegPark /\ BufferPark /\ ClientPark /\ ManagerPark /\ TeardownPark /\ GroupsPark /\ BatchPark /\ GeneratePark /\ ApiPark /\ ModelsPark /\ NodesPark /\ WatcherPark /\ ProxyPark
InitWorker == WorkerInit /\ NoncePark /\ SenderPark /\ DelegPark /\ BufferPark /\ ClientPark /\ ManagerPark /\ TeardownPark /\ GroupsPark /\ BatchPark /\ GeneratePark /\ ApiPark /\ ModelsPark /\ NodesPark /\ WatcherPark /\ ProxyPark
InitSender == SenderInit /\ WorkerPark /\ NoncePark /\ DelegPark /\ BufferPark /\ ClientPark /\ ManagerPark /\ TeardownPark /\ GroupsPark /\ BatchPark /\ GeneratePark /\ ApiPark /\ ModelsPark /\ NodesPark /\ WatcherPark /\ ProxyPark
InitDeleg == DelegInit /\ NoncePark /\ WorkerPark /\ SenderPark /\ BufferPark /\ ClientPark /\ ManagerPark /\ TeardownPark /\ GroupsPark /\ BatchPark /\ GeneratePark /\ ApiPark /\ ModelsPark /\ NodesPark /\ WatcherPark /\ ProxyPark
InitBuffer == BufferInit /\ NoncePark /\ WorkerPark /\ SenderPark /\ DelegPark /\ ClientPark /\ ManagerPark /\ TeardownPark /\ GroupsPark /\ BatchPark /\ GeneratePark /\ ApiPark /\ ModelsPark /\ NodesPark /\ WatcherPark /\ ProxyPark
InitClient == ClientInit /\ BufferPark /\ DelegPark /\ NoncePark /\ SenderPark /\ WorkerPark /\ ManagerPark /\ TeardownPark /\ GroupsPark /\ BatchPark /\ GeneratePark /\ ApiPark /\ ModelsPark /\ NodesPark /\ WatcherPark /\ ProxyPark
InitManager == ManagerInit /\ BufferPark /\ ClientPark /\ DelegPark /\ NoncePark /\ SenderPark /\ WorkerPark /\ TeardownPark /\ GroupsPark /\ BatchPark /\ GeneratePark /\ ApiPark /\ ModelsPark /\ NodesPark /\ WatcherPark /\ ProxyPark
InitTeardown == TeardownInit /\ BufferPark /\ ClientPark /\ DelegPark /\ ManagerPark /\ NoncePark /\ SenderPark /\ WorkerPark /\ GroupsPark /\ BatchPark /\ GeneratePark /\ ApiPark /\ ModelsPark /\ NodesPark /\ WatcherPark /\ ProxyPark
InitGroups == GroupsInit /\ BufferPark /\ ClientPark /\ DelegPark /\ ManagerPark /\ NoncePark /\ SenderPark /\ TeardownPark /\ WorkerPark /\ BatchPark /\ GeneratePark /\ ApiPark /\ ModelsPark /\ NodesPark /\ WatcherPark /\ ProxyPark
InitBatch == BatchInit /\ BufferPark /\ ClientPark /\ DelegPark /\ GroupsPark /\ ManagerPark /\ NoncePark /\ SenderPark /\ TeardownPark /\ WorkerPark /\ GeneratePark /\ ApiPark /\ ModelsPark /\ NodesPark /\ WatcherPark /\ ProxyPark
InitGenerate == GenerateInit /\ BatchPark /\ BufferPark /\ ClientPark /\ DelegPark /\ GroupsPark /\ ManagerPark /\ NoncePark /\ SenderPark /\ TeardownPark /\ WorkerPark /\ ApiPark /\ ModelsPark /\ NodesPark /\ WatcherPark /\ ProxyPark
InitApi == ApiInit /\ BatchPark /\ BufferPark /\ ClientPark /\ DelegPark /\ GeneratePark /\ GroupsPark /\ ManagerPark /\ NoncePark /\ SenderPark /\ TeardownPark /\ WorkerPark /\ ModelsPark /\ NodesPark /\ WatcherPark /\ ProxyPark
InitModels == ModelsInit /\ ApiPark /\ BatchPark /\ BufferPark /\ ClientPark /\ DelegPark /\ GeneratePark /\ GroupsPark /\ ManagerPark /\ NoncePark /\ SenderPark /\ TeardownPark /\ WorkerPark /\ NodesPark /\ WatcherPark /\ ProxyPark
InitNodes == NodesInit /\ ApiPark /\ BatchPark /\ BufferPark /\ ClientPark /\ DelegPark /\ GeneratePark /\ GroupsPark /\ ManagerPark /\ ModelsPark /\ NoncePark /\ SenderPark /\ TeardownPark /\ WorkerPark /\ WatcherPark /\ ProxyPark
InitWatcher == WatcherInit /\ ApiPark /\ BatchPark /\ BufferPark /\ ClientPark /\ DelegPark /\ GeneratePark /\ GroupsPark /\ ManagerPark /\ ModelsPark /\ NodesPark /\ NoncePark /\ SenderPark /\ TeardownPark /\ WorkerPark /\ ProxyPark
InitProxy == ProxyInit /\ ApiPark /\ BatchPark /\ BufferPark /\ ClientPark /\ DelegPark /\ GeneratePark /\ GroupsPark /\ ManagerPark /\ ModelsPark /\ NodesPark /\ NoncePark /\ SenderPark /\ TeardownPark /\ WatcherPark /\ WorkerPark

SpecNonce == InitNonce /\ [][NonceNext]_vars
SpecWorker == InitWorker /\ [][WorkerNext]_vars
SpecSender == InitSender /\ [][SenderNext]_vars
SpecDeleg == InitDeleg /\ [][DelegNext]_vars
SpecBuffer == InitBuffer /\ [][BufferNext]_vars
SpecClient == InitClient /\ [][ClientNext]_vars
SpecManager == InitManager /\ [][ManagerNext]_vars
SpecTeardown == InitTeardown /\ [][TeardownNext]_vars
SpecGroups == InitGroups /\ [][GroupsNext]_vars
SpecBatch == InitBatch /\ [][BatchNext]_vars
SpecGenerate == InitGenerate /\ [][GenerateNext]_vars
SpecApi == InitApi /\ [][ApiNext]_vars
SpecModels == InitModels /\ [][ModelsNext]_vars
SpecNodes == InitNodes /\ [][NodesNext]_vars
SpecWatcher == InitWatcher /\ [][WatcherNext]_vars
SpecProxy == InitProxy /\ [][ProxyNext]_vars
\* The Worker process keeps running its loop and every future of the executor
\* completes and runs its callback.
SpecGenerateFair ==
    /\ InitGenerate
    /\ [][GenerateNext]_vars
    /\ WF_vars(WorkerSteps)
    /\ \A k \in IssuedBatches :
          WF_vars(ProcessResult(k) \/ ProcessResultPutFails(k) \/ ProcessResultRaises(k))

====
